---- MODULE Spec2Model ----
(***************************************************************************)
(* Invoice verification: ComprehensiveInvoiceVerifier (invoice_verifier)   *)
(* and the dashboard that drives it (streamlit_app.py).                    *)
(*                                                                         *)
(* Conventions.                                                            *)
(*  - A Python value is a tagged record: None, Num(v) (a float, v in       *)
(*    millionths), IntV(n) (an int), Txt(s) (a str).                       *)
(*  - A str is a TLA+ string; characters are read with SubSeq.             *)
(*  - Python is single-threaded: a second call or a second run starts      *)
(*    only when the first has returned.                                    *)
(***************************************************************************)
EXTENDS Integers, Sequences, FiniteSets, TLC

VARIABLES
    \* ---- pure helper functions applied to drawn arguments
    fn, arg1, arg2, ret,
    \* ---- compare_line_items: arguments, locals, result, call history
    excel_items, pdf_items, mpc, excel_idx,
    matched_pdf_indices, matched_excel_indices, results,
    pairs, returned,
    \* ---- one verifier after the other on the same two documents
    sheet, pages,            \* the Excel sheet and the PDF pages read
    now,                     \* the clock, in seconds
    runs,                    \* verifiers constructed so far
    vpc,                     \* where the current verifier is
    verification_results,    \* self.verification_results
    excel_data, pdf_data,    \* the locals of verify, << >> until assigned
    report_file,             \* the text at output_path, << >> until written
    reports,                 \* the report_text returned, run after run
    overall_pass,            \* the dashboard's verdict, << >> until computed
    \* ---- the dashboard's run around the verifier
    excel_name,              \* excel_file.name, "" until a run starts
    excel_path, pdf_path,    \* the dashboard's locals, << >> until assigned
    temp_files,              \* the temporary files that exist
    fields_status            \* the field markers shown, one row per mismatch

pureVars  == <<fn, arg1, arg2, ret>>
matchVars == <<excel_items, pdf_items, mpc, excel_idx, matched_pdf_indices,
               matched_excel_indices, results, pairs, returned>>
lifeVars  == <<sheet, pages, now, runs, vpc, verification_results,
               excel_data, pdf_data, report_file, reports, overall_pass,
               excel_name, excel_path, pdf_path, temp_files, fields_status>>
dashVars  == <<excel_name, excel_path, pdf_path, temp_files, fields_status>>
vars      == <<pureVars, matchVars, lifeVars>>

-----------------------------------------------------------------------------
(* Python values *)

None    == [t |-> "none"]
Num(v)  == [t |-> "num", v |-> v]
IntV(n) == [t |-> "int", n |-> n]
Txt(s)  == [t |-> "str", s |-> s]

\* one unit of a float: 10^-6
Scale == 1000 * 1000

-----------------------------------------------------------------------------
(* Characters and strings *)

Ch(s, i) == SubSeq(s, i, i)

Digits == {"0", "1", "2", "3", "4", "5", "6", "7", "8", "9"}

\* str.isspace() on the characters that occur here
WhiteSpace == {" ", "\t"}

DigitVal(c) ==
    CASE c = "0" -> 0 [] c = "1" -> 1 [] c = "2" -> 2 [] c = "3" -> 3
      [] c = "4" -> 4 [] c = "5" -> 5 [] c = "6" -> 6 [] c = "7" -> 7
      [] c = "8" -> 8 [] c = "9" -> 9

IsDigits(s) == Len(s) > 0 /\ \A i \in 1..Len(s) : Ch(s, i) \in Digits

RECURSIVE ParseNat(_)
ParseNat(s) ==
    IF Len(s) = 0 THEN 0
    ELSE 10 * ParseNat(SubSeq(s, 1, Len(s) - 1)) + DigitVal(Ch(s, Len(s)))

RECURSIVE Pow10(_)
Pow10(n) == IF n <= 0 THEN 1 ELSE 10 * Pow10(n - 1)

\* str.strip(): drop leading and trailing whitespace
RECURSIVE LStrip(_)
LStrip(s) ==
    IF Len(s) > 0 /\ Ch(s, 1) \in WhiteSpace THEN LStrip(Tail(s)) ELSE s

RECURSIVE RStrip(_)
RStrip(s) ==
    IF Len(s) > 0 /\ Ch(s, Len(s)) \in WhiteSpace
    THEN RStrip(SubSeq(s, 1, Len(s) - 1)) ELSE s

Strip(s) == RStrip(LStrip(s))

LowerCh(c) ==
    CASE c = "A" -> "a" [] c = "B" -> "b" [] c = "C" -> "c" [] c = "D" -> "d"
      [] c = "E" -> "e" [] c = "F" -> "f" [] c = "G" -> "g" [] c = "H" -> "h"
      [] c = "I" -> "i" [] c = "J" -> "j" [] c = "K" -> "k" [] c = "L" -> "l"
      [] c = "M" -> "m" [] c = "N" -> "n" [] c = "O" -> "o" [] c = "P" -> "p"
      [] c = "Q" -> "q" [] c = "R" -> "r" [] c = "S" -> "s" [] c = "T" -> "t"
      [] c = "U" -> "u" [] c = "V" -> "v" [] c = "W" -> "w" [] c = "X" -> "x"
      [] c = "Y" -> "y" [] c = "Z" -> "z" [] OTHER -> c

\* str.lower()
RECURSIVE Lower(_)
Lower(s) == IF Len(s) = 0 THEN "" ELSE LowerCh(Head(s)) \o Lower(Tail(s))

\* re.sub(r'\s+', ' ', s): every run of whitespace becomes one space
RECURSIVE CollapseWs(_)
CollapseWs(s) ==
    IF Len(s) = 0 THEN ""
    ELSE IF Head(s) \in WhiteSpace
         THEN " " \o CollapseWs(LStrip(s))
         ELSE Head(s) \o CollapseWs(Tail(s))

\* the element of a one-element set
The(S) == CHOOSE x \in S : TRUE

\* Python's  a in b  on two strs
IsSubstring(a, b) ==
    \E i \in 0..(Len(b) - Len(a)) : SubSeq(b, i + 1, i + Len(a)) = a

-----------------------------------------------------------------------------
(* float(): the decimal literals  D+ , D+.D* , .D+  with at most six       *)
(* decimals, surrounding whitespace allowed; every other str that occurs   *)
(* here makes float() raise ValueError.                                    *)

DotPos(s) == {i \in 1..Len(s) : Ch(s, i) = "."}

IsDecimalLiteral(s) ==
    /\ Len(s) > 0
    /\ \A i \in 1..Len(s) : Ch(s, i) \in Digits \cup {"."}
    /\ Cardinality(DotPos(s)) <= 1
    /\ \E i \in 1..Len(s) : Ch(s, i) \in Digits

DecimalValue(s) ==
    IF DotPos(s) = {} THEN ParseNat(s) * Scale
    ELSE LET d    == CHOOSE i \in DotPos(s) : TRUE
             ip   == SubSeq(s, 1, d - 1)
             fp   == SubSeq(s, d + 1, Len(s))
         IN  ParseNat(ip) * Scale + ParseNat(fp) * Pow10(6 - Len(fp))

\* does float(val) return (rather than raise)?
CanFloat(val) ==
    \/ val.t \in {"num", "int"}
    \/ val.t = "str" /\ IsDecimalLiteral(Strip(val.s))

\* float(val), in millionths
FloatOf(val) ==
    CASE val.t = "num" -> val.v
      [] val.t = "int" -> val.n * Scale
      [] val.t = "str" -> DecimalValue(Strip(val.s))


-----------------------------------------------------------------------------
(* compare_values *)

\* tolerance=0.01, the default every caller uses
Tolerance == Scale \div 100

\* float(x) is the double nearest to x, not x.  DoubleErr(v) is that double
\* minus v/10^6, in units of 2^-59 * 10^-6 (IEEE-754 binary64, round to
\* nearest even).  Whole numbers are exact; the other entries are the values
\* that occur at a distance of exactly 0.01 from another value.
DoubleErr(v) ==
    CASE v % Scale = 0 -> 0
      []  v = 10000    -> 120000
      []  v = 1010000  -> 5120000
      []  v = 5005000  -> 0 - 61440000
      []  v = 5010000  -> 0 - 122880000
      []  v = 5020000  -> 0 - 245760000

\* abs(a - b) < tolerance on doubles.  The subtraction of two doubles this
\* close is exact, so away from a decimal distance of exactly 0.01 the
\* decimal distance decides, and at it the rounding of the three literals.
AbsDiffBelowTolerance(a, b) ==
    LET hi == IF a >= b THEN a ELSE b
        lo == IF a >= b THEN b ELSE a
    IN  IF hi - lo # Tolerance
        THEN hi - lo < Tolerance
        ELSE DoubleErr(hi) - DoubleErr(lo) < DoubleErr(Tolerance)

\* str(val1) == str(val2), reached only when float() raised on one of them:
\* the str of a float or an int is a numeric literal, a str is itself.
StrEqual(val1, val2) ==
    IF val1.t = "str" /\ val2.t = "str" THEN val1.s = val2.s ELSE FALSE

CompareValues(val1, val2) ==
    IF val1 = None /\ val2 = None THEN TRUE
    ELSE IF val1 = None \/ val2 = None THEN FALSE
    ELSE IF CanFloat(val1) /\ CanFloat(val2)
         THEN AbsDiffBelowTolerance(FloatOf(val1), FloatOf(val2))
         ELSE StrEqual(val1, val2)

-----------------------------------------------------------------------------
(* normalize_description *)

\* Python truthiness of the values that occur
Truthy(val) ==
    CASE val.t = "none" -> FALSE
      [] val.t = "num"  -> val.v # 0
      [] val.t = "int"  -> val.n # 0
      [] val.t = "str"  -> val.s # ""

NormalizeDescription(desc) ==
    IF ~Truthy(desc) THEN ""
    ELSE CollapseWs(Lower(Strip(desc.s)))

-----------------------------------------------------------------------------
(* compare_line_items: the agreement vector of one pair *)

\* the decimals of a float's str: six digits, trailing zeros dropped but one
RECURSIVE DropZeros(_)
DropZeros(s) ==
    IF Len(s) > 1 /\ Ch(s, Len(s)) = "0"
    THEN DropZeros(SubSeq(s, 1, Len(s) - 1)) ELSE s

RECURSIVE ZeroPad(_, _)
ZeroPad(s, n) == IF Len(s) >= n THEN s ELSE ZeroPad("0" \o s, n)

\* str(x) of a non-negative float x given in millionths: 10.0 -> "10.0"
FloatRepr(v) ==
    ToString(v \div Scale) \o "." \o DropZeros(ZeroPad(ToString(v % Scale), 6))

\* str(x)
PyStr(val) ==
    CASE val.t = "none" -> "None"
      [] val.t = "str"  -> val.s
      [] val.t = "int"  -> ToString(val.n)
      [] val.t = "num"  -> FloatRepr(val.v)

\* (variant) containment tried in one direction only
DescMatchOneWay(excel_item, pdf_item) ==
    \E excel_desc_norm \in {NormalizeDescription(excel_item.description)},
       pdf_desc_norm \in {NormalizeDescription(pdf_item.description)} :
       IsSubstring(excel_desc_norm, pdf_desc_norm)

DescMatch(excel_item, pdf_item) ==
    \E excel_desc_norm \in {NormalizeDescription(excel_item.description)},
       pdf_desc_norm \in {NormalizeDescription(pdf_item.description)} :
       \/ IsSubstring(excel_desc_norm, pdf_desc_norm)
       \/ IsSubstring(pdf_desc_norm, excel_desc_norm)

\* (variant) unit_value recomputed from total_value / quantity before it is
\* compared
RecomputedUnitValue(item) ==
    IF /\ item.total_value.t = "num" /\ item.quantity.t = "num"
       /\ item.quantity.v > 0
    THEN LET t == item.total_value.v \div 1000
             q == item.quantity.v \div 1000
         IN  IF q = 0 THEN item.unit_value
             ELSE Num((t \div q) * Scale + (((t % q) * 1000) \div q) * 1000)
    ELSE item.unit_value

DifferencesRecomputed(excel_item, pdf_item) ==
    [ quantity     |-> CompareValues(excel_item.quantity, pdf_item.quantity),
      net_weight   |-> CompareValues(excel_item.net_weight, pdf_item.net_weight),
      description  |-> DescMatch(excel_item, pdf_item),
      hs_code      |-> PyStr(excel_item.hs_code) = PyStr(pdf_item.hs_code),
      country_code |-> PyStr(excel_item.country_code) = PyStr(pdf_item.country_code),
      year         |-> excel_item.year = pdf_item.year,
      unit_value   |-> CompareValues(RecomputedUnitValue(excel_item),
                                     RecomputedUnitValue(pdf_item)),
      total_value  |-> CompareValues(excel_item.total_value, pdf_item.total_value) ]

Differences(excel_item, pdf_item) ==
    [ quantity     |-> CompareValues(excel_item.quantity, pdf_item.quantity),
      net_weight   |-> CompareValues(excel_item.net_weight, pdf_item.net_weight),
      description  |-> DescMatch(excel_item, pdf_item),
      hs_code      |-> PyStr(excel_item.hs_code) = PyStr(pdf_item.hs_code),
      country_code |-> PyStr(excel_item.country_code) = PyStr(pdf_item.country_code),
      year         |-> excel_item.year = pdf_item.year,
      unit_value   |-> CompareValues(excel_item.unit_value, pdf_item.unit_value),
      total_value  |-> CompareValues(excel_item.total_value, pdf_item.total_value) ]

FieldNames == {"quantity", "net_weight", "description", "hs_code",
               "country_code", "year", "unit_value", "total_value"}

\* score: one point per agreeing field
Score(differences) ==
    The({ Cardinality({f \in FieldNames : d[f]}) : d \in {differences} })

\* score == 8
PerfectScore == 8

\* (variant) a threshold one lower
MinPartialScoreLow == 4 - 1

\* score >= 4
MinPartialScore == 4

-----------------------------------------------------------------------------
(* compare_line_items.  Indices are positions 1..Len (Python's 0..len-1).  *)
(* The locals of the call are one record:                                  *)
(*   excel_idx, matched_pdf_indices, matched_excel_indices, results        *)
(* and pairs, a history of which index was paired with which (the code     *)
(* keeps only the two index sets and the count).                           *)

NoBest == [score |-> 0, idx |-> 0]

\* (variant) the scan without  if pdf_idx in matched_pdf_indices: continue
RECURSIVE ScanPdfNoSkip(_, _, _, _, _)
ScanPdfNoSkip(excel_item, pdfs, matched_pdf, pdf_idx, best) ==
    IF pdf_idx > Len(pdfs) THEN [perfect |-> 0, best |-> best]
    ELSE LET differences == Differences(excel_item, pdfs[pdf_idx])
             score       == Score(differences)
         IN  IF score = PerfectScore
             THEN [perfect |-> pdf_idx, best |-> best]
             ELSE IF score > best.score /\ score >= MinPartialScore
             THEN ScanPdfNoSkip(excel_item, pdfs, matched_pdf, pdf_idx + 1,
                                [score |-> score, idx |-> pdf_idx,
                                 differences |-> differences])
             ELSE ScanPdfNoSkip(excel_item, pdfs, matched_pdf, pdf_idx + 1, best)

\* (variant) the first unclaimed candidate scoring at least 4 is taken
RECURSIVE ScanPdfFirstFit(_, _, _, _, _)
ScanPdfFirstFit(excel_item, pdfs, matched_pdf, pdf_idx, best) ==
    IF pdf_idx > Len(pdfs) THEN [perfect |-> 0, best |-> best]
    ELSE IF pdf_idx \in matched_pdf
    THEN ScanPdfFirstFit(excel_item, pdfs, matched_pdf, pdf_idx + 1, best)
    ELSE LET differences == Differences(excel_item, pdfs[pdf_idx])
             score       == Score(differences)
         IN  IF score = PerfectScore
             THEN [perfect |-> pdf_idx, best |-> best]
             ELSE IF score >= MinPartialScore
             THEN [perfect |-> 0,
                   best |-> [score |-> score, idx |-> pdf_idx,
                             differences |-> differences]]
             ELSE ScanPdfFirstFit(excel_item, pdfs, matched_pdf, pdf_idx + 1, best)

\* (variant) a later candidate replaces the best one at an equal score
RECURSIVE ScanPdfLastBest(_, _, _, _, _)
ScanPdfLastBest(excel_item, pdfs, matched_pdf, pdf_idx, best) ==
    IF pdf_idx > Len(pdfs) THEN [perfect |-> 0, best |-> best]
    ELSE IF pdf_idx \in matched_pdf
    THEN ScanPdfLastBest(excel_item, pdfs, matched_pdf, pdf_idx + 1, best)
    ELSE LET differences == Differences(excel_item, pdfs[pdf_idx])
             score       == Score(differences)
         IN  IF score = PerfectScore
             THEN [perfect |-> pdf_idx, best |-> best]
             ELSE IF score >= best.score /\ score >= MinPartialScore
             THEN ScanPdfLastBest(excel_item, pdfs, matched_pdf, pdf_idx + 1,
                                  [score |-> score, idx |-> pdf_idx,
                                   differences |-> differences])
             ELSE ScanPdfLastBest(excel_item, pdfs, matched_pdf, pdf_idx + 1, best)

\* (variant) the best candidate kept without  and score >= 4
RECURSIVE ScanPdfAnyPartial(_, _, _, _, _)
ScanPdfAnyPartial(excel_item, pdfs, matched_pdf, pdf_idx, best) ==
    IF pdf_idx > Len(pdfs) THEN [perfect |-> 0, best |-> best]
    ELSE IF pdf_idx \in matched_pdf
    THEN ScanPdfAnyPartial(excel_item, pdfs, matched_pdf, pdf_idx + 1, best)
    ELSE LET differences == Differences(excel_item, pdfs[pdf_idx])
             score       == Score(differences)
         IN  IF score = PerfectScore
             THEN [perfect |-> pdf_idx, best |-> best]
             ELSE IF score > best.score
             THEN ScanPdfAnyPartial(excel_item, pdfs, matched_pdf, pdf_idx + 1,
                                    [score |-> score, idx |-> pdf_idx,
                                     differences |-> differences])
             ELSE ScanPdfAnyPartial(excel_item, pdfs, matched_pdf, pdf_idx + 1, best)

\* (variant) a score of 8 kept as the best candidate instead of accepted
RECURSIVE ScanPdfNoPerfect(_, _, _, _, _)
ScanPdfNoPerfect(excel_item, pdfs, matched_pdf, pdf_idx, best) ==
    IF pdf_idx > Len(pdfs) THEN [perfect |-> 0, best |-> best]
    ELSE IF pdf_idx \in matched_pdf
    THEN ScanPdfNoPerfect(excel_item, pdfs, matched_pdf, pdf_idx + 1, best)
    ELSE LET differences == Differences(excel_item, pdfs[pdf_idx])
             score       == Score(differences)
         IN  IF score > best.score /\ score >= MinPartialScore
             THEN ScanPdfNoPerfect(excel_item, pdfs, matched_pdf, pdf_idx + 1,
                                   [score |-> score, idx |-> pdf_idx,
                                    differences |-> differences])
             ELSE ScanPdfNoPerfect(excel_item, pdfs, matched_pdf, pdf_idx + 1, best)

\* the inner loop over pdf_items for one excel_item, from pdf_idx on:
\* perfect is the index that scored 8 (0: none), best the best partial
RECURSIVE ScanPdf(_, _, _, _, _)
ScanPdf(excel_item, pdfs, matched_pdf, pdf_idx, best) ==
    IF pdf_idx > Len(pdfs) THEN [perfect |-> 0, best |-> best]
    ELSE IF pdf_idx \in matched_pdf
    THEN ScanPdf(excel_item, pdfs, matched_pdf, pdf_idx + 1, best)
    ELSE LET differences == Differences(excel_item, pdfs[pdf_idx])
             score       == Score(differences)
         IN  IF score = PerfectScore
             THEN [perfect |-> pdf_idx, best |-> best]
             ELSE IF score > best.score /\ score >= MinPartialScore
             THEN ScanPdf(excel_item, pdfs, matched_pdf, pdf_idx + 1,
                          [score |-> score, idx |-> pdf_idx,
                           differences |-> differences])
             ELSE ScanPdf(excel_item, pdfs, matched_pdf, pdf_idx + 1, best)

\* f"{best_match_score}/8"
MatchScoreText(score) == ToString(score) \o "/8"

\* the locals after results = {...}; matched_*_indices = set()
CompareLocals(excels, pdfs) ==
    [ excel_idx             |-> 1,
      matched_pdf_indices   |-> {},
      matched_excel_indices |-> {},
      pairs                 |-> << >>,
      results |-> [ total_excel     |-> Len(excels),
                    total_pdf       |-> Len(pdfs),
                    perfect_matches |-> 0,
                    mismatches      |-> << >>,
                    unmatched_excel |-> << >>,
                    unmatched_pdf   |-> << >> ] ]

\* one pass of the outer loop: excel_items[loc.excel_idx]
MatchOne(loc, excels, pdfs) ==
    LET i          == loc.excel_idx
        excel_item == excels[i]
        scan       == ScanPdf(excel_item, pdfs, loc.matched_pdf_indices, 1, NoBest)
    IN  IF scan.perfect # 0
        THEN [ loc EXCEPT
                 !.results.perfect_matches = @ + 1,
                 !.matched_pdf_indices     = @ \cup {scan.perfect},
                 !.matched_excel_indices   = @ \cup {i},
                 !.pairs     = Append(@, [excel |-> i, pdf |-> scan.perfect,
                                          kind |-> "perfect"]),
                 !.excel_idx = i + 1 ]
        ELSE IF scan.best.idx # 0
        THEN [ loc EXCEPT
                 !.results.mismatches = Append(@,
                     [ excel_item  |-> excel_item,
                       pdf_item    |-> pdfs[scan.best.idx],
                       differences |-> scan.best.differences,
                       match_score |-> MatchScoreText(scan.best.score) ]),
                 !.matched_pdf_indices   = @ \cup {scan.best.idx},
                 !.matched_excel_indices = @ \cup {i},
                 !.pairs     = Append(@, [excel |-> i, pdf |-> scan.best.idx,
                                          kind |-> "partial"]),
                 !.excel_idx = i + 1 ]
        ELSE [ loc EXCEPT !.excel_idx = i + 1 ]

\* (variant) the closing loops without  if idx not in matched
RECURSIVE UnmatchedAll(_, _, _)
UnmatchedAll(s, matched, idx) ==
    IF idx > Len(s) THEN << >>
    ELSE <<s[idx]>> \o UnmatchedAll(s, matched, idx + 1)

\* the items of s at the positions not in matched, in order
RECURSIVE Unmatched(_, _, _)
Unmatched(s, matched, idx) ==
    IF idx > Len(s) THEN << >>
    ELSE IF idx \in matched THEN Unmatched(s, matched, idx + 1)
    ELSE <<s[idx]>> \o Unmatched(s, matched, idx + 1)

\* the two closing loops, and the value returned
FinishCompare(loc, excels, pdfs) ==
    [ loc.results EXCEPT
        !.unmatched_excel = Unmatched(excels, loc.matched_excel_indices, 1),
        !.unmatched_pdf   = Unmatched(pdfs, loc.matched_pdf_indices, 1) ]

RECURSIVE MatchFrom(_, _, _)
MatchFrom(loc, excels, pdfs) ==
    IF loc.excel_idx > Len(excels) THEN loc
    ELSE MatchFrom(MatchOne(loc, excels, pdfs), excels, pdfs)

\* compare_line_items(excel_items, pdf_items) as one call
CompareLineItems(excels, pdfs) ==
    FinishCompare(MatchFrom(CompareLocals(excels, pdfs), excels, pdfs),
                  excels, pdfs)

-----------------------------------------------------------------------------
(* extract_excel_data.  The sheet read by pd.read_excel is                 *)
(*   contact : the cell df.iloc[7, 1] (NaN when the grid is smaller),      *)
(*   has_rank: whether some row has 'Rank' in column 0,                    *)
(*   rows    : the rows after that row, each with the cells of the columns *)
(*             0, 1, 2, 4, 5, 6, 8, 11 under the names the code gives them.*)

NaN == [t |-> "nan"]

\* x if pd.notna(x) else None
CellOrNone(cell) == IF cell = NaN THEN None ELSE cell

\* str.replace('.', '')
RECURSIVE RemoveChar(_, _)
RemoveChar(s, c) ==
    IF Len(s) = 0 THEN ""
    ELSE (IF Head(s) = c THEN "" ELSE Head(s)) \o RemoveChar(Tail(s), c)

\* does int(val) return?
CanInt(val) ==
    \/ val.t \in {"num", "int"}
    \/ val.t = "str" /\ IsDigits(Strip(val.s))

\* int(val), of a non-negative value
IntOf(val) ==
    CASE val.t = "num" -> val.v \div Scale
      [] val.t = "int" -> val.n
      [] val.t = "str" -> ParseNat(Strip(val.s))

\* the next n decimal digits of r / q, and the remainder left
RECURSIVE FracDigits(_, _, _)
FracDigits(r, q, n) ==
    IF n = 0 THEN [digits |-> 0, rest |-> r]
    ELSE LET d    == (r * 10) \div q
             tail == FracDigits((r * 10) % q, q, n - 1)
         IN  [digits |-> d * Pow10(n - 1) + tail.digits, rest |-> tail.rest]

\* round(float(total_value) / float(quantity), 6), in millionths
UnitValue(total, quantity) ==
    LET f == FracDigits(total % quantity, quantity, 6)
    IN  (total \div quantity) * Scale + f.digits
          + (IF 2 * f.rest >= quantity THEN 1 ELSE 0)

\* quantity > 0 raises TypeError on a str
GreaterThanZero(val) ==
    CASE val.t = "num" -> val.v > 0
      [] val.t = "int" -> val.n > 0

\* 'rank': int(rank) if str(rank).replace('.','').isdigit() else rank
RankRaises(rank) ==
    IsDigits(RemoveChar(PyStr(rank), ".")) /\ ~CanInt(rank)

RankValue(rank) ==
    IF IsDigits(RemoveChar(PyStr(rank), ".")) THEN IntV(IntOf(rank)) ELSE rank

\* one row of the item loop: stop (the 'Total' row), raises (an exception
\* leaves extract_excel_data), item (<<the dict appended>> or << >>)
ExcelRow(row) ==
    LET rank          == CellOrNone(row.rank)
        quantity      == CellOrNone(row.quantity)
        hs_code       == CellOrNone(row.hs_code)
        country_code  == CellOrNone(row.country_code)
        year          == CellOrNone(row.year)
        description   == CellOrNone(row.description)
        net_weight_kg == CellOrNone(row.net_weight_kg)
        total_value   == CellOrNone(row.total_value)
        stop          == row.rank # NaN /\ IsSubstring("Total", PyStr(row.rank))
        \* if total_value and quantity and quantity > 0:
        compared      == Truthy(total_value) /\ Truthy(quantity)
        type_error    == compared /\ quantity.t = "str"
        unit_value    ==
            IF compared /\ ~type_error /\ GreaterThanZero(quantity)
                 /\ CanFloat(total_value)
            THEN Num(UnitValue(FloatOf(total_value), FloatOf(quantity)))
            ELSE None
        \* if rank and quantity and description:
        appended      == Truthy(rank) /\ Truthy(quantity) /\ Truthy(description)
        value_error   ==
            appended /\ \/ RankRaises(rank)
                        \/ ~CanFloat(quantity)
                        \/ Truthy(net_weight_kg) /\ ~CanFloat(net_weight_kg)
                        \/ Truthy(year) /\ ~CanInt(year)
                        \/ Truthy(total_value) /\ ~CanFloat(total_value)
    IN  IF stop THEN [stop |-> TRUE, raises |-> FALSE, item |-> << >>]
        ELSE IF type_error \/ value_error
        THEN [stop |-> FALSE, raises |-> TRUE, item |-> << >>]
        ELSE IF ~appended
        THEN [stop |-> FALSE, raises |-> FALSE, item |-> << >>]
        ELSE [stop |-> FALSE, raises |-> FALSE, item |-> <<
              [ rank         |-> RankValue(rank),
                quantity     |-> Num(FloatOf(quantity)),
                net_weight   |-> IF Truthy(net_weight_kg)
                                 THEN Num(FloatOf(net_weight_kg)) ELSE None,
                description  |-> Txt(Strip(PyStr(description))),
                hs_code      |-> IF Truthy(hs_code)
                                 THEN Txt(RemoveChar(PyStr(hs_code), "."))
                                 ELSE None,
                country_code |-> IF Truthy(country_code)
                                 THEN Txt(Strip(PyStr(country_code))) ELSE None,
                year         |-> IF Truthy(year) THEN IntV(IntOf(year)) ELSE None,
                unit_value   |-> IF Truthy(unit_value) THEN unit_value ELSE None,
                total_value  |-> IF Truthy(total_value)
                                 THEN Num(FloatOf(total_value)) ELSE None ] >>]

\* the item loop from row idx on: raises, or the items appended
RECURSIVE ExcelRows(_, _)
ExcelRows(rows, idx) ==
    IF idx > Len(rows) THEN [raises |-> FALSE, line_items |-> << >>]
    ELSE LET r == ExcelRow(rows[idx])
         IN  IF r.stop THEN [raises |-> FALSE, line_items |-> << >>]
             ELSE IF r.raises THEN [raises |-> TRUE, line_items |-> << >>]
             ELSE LET tail == ExcelRows(rows, idx + 1)
                  IN  [raises |-> tail.raises,
                       line_items |-> IF tail.raises THEN << >>
                                      ELSE r.item \o tail.line_items]

\* extract_excel_data(): raises, or the excel_data returned
ExtractExcelData(sh) ==
    LET loop == IF sh.has_rank THEN ExcelRows(sh.rows, 1)
                ELSE [raises |-> FALSE, line_items |-> << >>]
    IN  [ raises |-> loop.raises,
          data   |-> [ contact_name |-> IF sh.contact # NaN
                                        THEN Txt(Strip(PyStr(sh.contact)))
                                        ELSE None,
                       purpose_of_shipment |-> None,
                       line_items   |-> loop.line_items ] ]

-----------------------------------------------------------------------------
(* extract_pdf_data.  pdf.pages is a sequence of pages; a page is          *)
(*   has_text: whether page.extract_text() returns a str (else None),      *)
(*   lines   : that str split at '\n' (one line at least).                 *)

Upper == {"A", "B", "C", "D", "E", "F", "G", "H", "I", "J", "K", "L", "M",
          "N", "O", "P", "Q", "R", "S", "T", "U", "V", "W", "X", "Y", "Z"}

From(s, i) == SubSeq(s, i, Len(s))

\* the slice s[i-1:j] of Python: j past the end is the end
Slice(s, i, j) == SubSeq(s, i, IF j > Len(s) THEN Len(s) ELSE j)

AllIn(s, S) == \A i \in 1..Len(s) : Ch(s, i) \in S

StartsWith(s, prefix) == Slice(s, 1, Len(prefix)) = prefix
EndsWith(s, suffix)   == Len(s) >= Len(suffix) /\ From(s, Len(s) - Len(suffix) + 1) = suffix

\* the one element of a singleton.  In The({e(x) : x \in {v}}) the value v
\* is computed once, however often e mentions x.

MinOf(S) == CHOOSE i \in S : \A j \in S : i <= j

\* the length of the longest prefix of s whose characters are all in S
SpanIn(s, S) ==
    LET out == {i \in 1..Len(s) : Ch(s, i) \notin S}
    IN  IF out = {} THEN Len(s) ELSE MinOf(out) - 1

\* where the maximal runs of non-whitespace of s start, and where they end
TokenStarts(s) ==
    {i \in 1..Len(s) : Ch(s, i) \notin WhiteSpace
                         /\ (i = 1 \/ Ch(s, i - 1) \in WhiteSpace)}
TokenEnds(s) ==
    {i \in 1..Len(s) : Ch(s, i) \notin WhiteSpace
                         /\ (i = Len(s) \/ Ch(s, i + 1) \in WhiteSpace)}

\* the k-th element of a set of numbers, in increasing order
Kth(S, k) == CHOOSE i \in S : Cardinality({j \in S : j <= i}) = k

\* str.split()
Split(s) ==
    The({ [k \in 1..Cardinality(starts) |->
              SubSeq(s, Kth(starts, k), Kth(ends, k))] :
          starts \in {TokenStarts(s)}, ends \in {TokenEnds(s)} })

\* ' '.join(parts)
RECURSIVE JoinSpace(_)
JoinSpace(parts) ==
    IF Len(parts) = 0 THEN ""
    ELSE IF Len(parts) = 1 THEN parts[1]
    ELSE parts[1] \o " " \o JoinSpace(Tail(parts))

\* a whole token matching  \d+\.?\d*
MatchesNumber(tok) ==
    LET a    == SpanIn(tok, Digits)
        rest == From(tok, a + 1)
    IN  a >= 1 /\ (rest = "" \/ (Head(rest) = "." /\ AllIn(Tail(rest), Digits)))

\* the length of the longest prefix of tok matching  [\d,]+\.?\d*
TotalPrefixLen(tok) ==
    LET a == SpanIn(tok, Digits \cup {","})
    IN  IF a = 0 THEN 0
        ELSE IF a < Len(tok) /\ Ch(tok, a + 1) = "."
        THEN a + 1 + SpanIn(From(tok, a + 2), Digits)
        ELSE a

\* a whole token matching  [\d,]+\.?\d*
MatchesTotal(tok) == Len(tok) >= 1 /\ TotalPrefixLen(tok) = Len(tok)

\* re.search(r'^\d+\.?\d*\s+\d+\.?\d*\s+PCS\s+Collectors', line)
IsItemLine(line) ==
    /\ Len(line) > 0 /\ Ch(line, 1) \in Digits
    /\ \E t \in {Split(line)} :
          /\ Len(t) >= 4
          /\ MatchesNumber(t[1]) /\ MatchesNumber(t[2])
          /\ t[3] = "PCS" /\ StartsWith(t[4], "Collectors")

\* re.match(r'^\d+\.?\d*\s+\d+\.?\d*\s+PCS', next_line)
IsItemStart(line) ==
    /\ Len(line) > 0 /\ Ch(line, 1) \in Digits
    /\ \E t \in {Split(line)} :
          /\ Len(t) >= 3
          /\ MatchesNumber(t[1]) /\ MatchesNumber(t[2])
          /\ StartsWith(t[3], "PCS")

\* the pattern  ^(qty)\s+(weight)\s+PCS\s+(.+?)\s+(\d{6})\s+([A-Z]{2})\s+([\d.]+)\s+([\d,]+\.?\d*)$
\* on an item line with the tokens t: the last four tokens are of the four
\* classes, after one token at least of description
MatchesFullPattern(line, t) ==
    LET n == Len(t)
    IN  /\ Ch(line, Len(line)) \notin WhiteSpace
        /\ n >= 8
        /\ Len(t[n - 3]) = 6 /\ AllIn(t[n - 3], Digits)
        /\ Len(t[n - 2]) = 2 /\ AllIn(t[n - 2], Upper)
        /\ Len(t[n - 1]) >= 1 /\ AllIn(t[n - 1], Digits \cup {"."})
        /\ MatchesTotal(t[n])

\* where the text 970531 starts in line
HsPositions(line) ==
    {i \in 1..Len(line) : Slice(line, i, i + 5) = "970531"}

\* re.search(r'970531\s+([A-Z]{2})', line) on the tokens t of line: the
\* text 970531 ends a token and the next token starts with two capitals;
\* <<group 1>> of the leftmost match, or << >>
SearchCountry(t) ==
    LET K == {k \in 1..(Len(t) - 1) :
                /\ EndsWith(t[k], "970531")
                /\ Len(t[k + 1]) >= 2 /\ AllIn(Slice(t[k + 1], 1, 2), Upper)}
    IN  IF K = {} THEN << >> ELSE <<Slice(t[MinOf(K) + 1], 1, 2)>>

\* re.search(r'970531\s+[A-Z]{2}\s+([\d.]+)\s+([\d,]+\.?\d*)', line) on the
\* tokens t of line: <<group 1, group 2>> of the leftmost match, or << >>
SearchValues(t) ==
    LET K == {k \in 1..(Len(t) - 3) :
                /\ EndsWith(t[k], "970531")
                /\ Len(t[k + 1]) = 2 /\ AllIn(t[k + 1], Upper)
                /\ Len(t[k + 2]) >= 1 /\ AllIn(t[k + 2], Digits \cup {"."})
                /\ TotalPrefixLen(t[k + 3]) >= 1}
    IN  IF K = {} THEN << >>
        ELSE The({ <<t[k + 2], Slice(t[k + 3], 1, TotalPrefixLen(t[k + 3]))>> :
                   k \in {MinOf(K)} })

\* the branch  if match:  with the tokens t of line
FullPatternFields(t) ==
    The({ IF ~IsDecimalLiteral(t[Len(t) - 1]) \/ ~IsDecimalLiteral(total_value_str)
          THEN [raises |-> TRUE]
          ELSE [ raises       |-> FALSE,
                 quantity     |-> Num(DecimalValue(t[1])),
                 net_weight   |-> Num(DecimalValue(t[2])),
                 hs_code      |-> Txt(t[Len(t) - 3]),
                 country_code |-> Txt(t[Len(t) - 2]),
                 unit_value   |-> Num(DecimalValue(t[Len(t) - 1])),
                 total_value  |-> Num(DecimalValue(total_value_str)) ] :
          total_value_str \in {RemoveChar(t[Len(t)], ",")} })

\* the branch  else:  (piece by piece) with parts = line.split()
FallbackFields(line, parts) ==
    The({ IF values_match # << >>
             /\ \/ ~IsDecimalLiteral(values_match[1])
                \/ /\ RemoveChar(values_match[2], ",") # ""
                   /\ ~IsDecimalLiteral(RemoveChar(values_match[2], ","))
          THEN [raises |-> TRUE]
          ELSE [ raises       |-> FALSE,
                 quantity     |-> Num(DecimalValue(parts[1])),
                 net_weight   |-> Num(DecimalValue(parts[2])),
                 hs_code      |-> IF HsPositions(line) # {}
                                  THEN Txt("970531") ELSE None,
                 country_code |-> IF country_match = << >> THEN None
                                  ELSE Txt(country_match[1]),
                 unit_value   |-> IF values_match = << >> THEN None
                                  ELSE Num(DecimalValue(values_match[1])),
                 total_value  |-> IF values_match = << >>
                                     \/ RemoveChar(values_match[2], ",") = ""
                                  THEN None
                                  ELSE Num(DecimalValue(
                                           RemoveChar(values_match[2], ","))) ] :
          country_match \in {SearchCountry(parts)},
          values_match \in {SearchValues(parts)} })

\* the numbers and codes read from an item line: raises, or the six locals
ItemFields(line) ==
    The({ IF MatchesFullPattern(line, t) THEN FullPatternFields(t)
          ELSE FallbackFields(line, t) :
          t \in {Split(line)} })

\* desc_before_hs.strip(): an item line without its leading  qty weight PCS
\* (the one place of an item line of these documents where the first
\* pattern of re.sub occurs) and without what starts at the first 970531
DescBeforeHs(line) ==
    The({ IF HsPositions(rest) = {} THEN Strip(rest)
          ELSE Strip(SubSeq(rest, 1, MinOf(HsPositions(rest)) - 1)) :
          rest \in {From(line, Kth(TokenStarts(line), 4))} })

\* re.search(r'(Note|Coin)\s+(19\d{2}|20\d{2})$', next_line): <<year>> or << >>
YearOf(next_line) ==
    The({ IF /\ Len(t) >= 2
             /\ Len(t[Len(t)]) = 4 /\ AllIn(t[Len(t)], Digits)
             /\ (StartsWith(t[Len(t)], "19") \/ StartsWith(t[Len(t)], "20"))
             /\ (EndsWith(t[Len(t) - 1], "Note") \/ EndsWith(t[Len(t) - 1], "Coin"))
          THEN <<ParseNat(t[Len(t)])>> ELSE << >> :
          t \in {Split(next_line)} })

\* the continuation lines j..last: the description parts and the year
RECURSIVE Continuation(_, _, _, _)
Continuation(lines, j, last, desc_parts) ==
    IF j > last THEN [desc_parts |-> desc_parts, year |-> None]
    ELSE The({ IF \/ IsItemStart(next_line)
                  \/ next_line = ""
                  \/ IsSubstring("Total", next_line)
                  \/ IsSubstring("=", next_line)
               THEN [desc_parts |-> desc_parts, year |-> None]
               ELSE IF year_match # << >>
               THEN [desc_parts |-> Append(desc_parts, next_line),
                     year |-> IntV(year_match[1])]
               ELSE Continuation(lines, j + 1, last, Append(desc_parts, next_line)) :
               next_line \in {Strip(lines[j])},
               year_match \in {YearOf(Strip(lines[j]))} })

\* lines[i] is an item line: raises, or item (<<the dict appended>> or << >>)
PdfItem(lines, i) ==
    The({ IF f.raises THEN [raises |-> TRUE, item |-> << >>]
          ELSE IF Truthy(f.quantity) /\ Truthy(f.net_weight)
                  /\ Truthy(f.hs_code) /\ Truthy(f.country_code)
          THEN [raises |-> FALSE, item |-> <<
                [ quantity     |-> f.quantity,
                  net_weight   |-> f.net_weight,
                  description  |-> Txt(Strip(JoinSpace(c.desc_parts))),
                  hs_code      |-> f.hs_code,
                  country_code |-> f.country_code,
                  year         |-> c.year,
                  unit_value   |-> f.unit_value,
                  total_value  |-> f.total_value ] >>]
          ELSE [raises |-> FALSE, item |-> << >>] :
          f \in {ItemFields(lines[i])},
          c \in {The({ Continuation(lines, i + 1,
                           IF i + 5 <= Len(lines) THEN i + 5 ELSE Len(lines),
                           IF first # "" THEN <<first>> ELSE << >>) :
                       first \in {DescBeforeHs(lines[i])} })} })

\* the loop over lines from i on: raises, or the items appended
RECURSIVE PdfLines(_, _)
PdfLines(lines, i) ==
    IF i > Len(lines) THEN [raises |-> FALSE, line_items |-> << >>]
    ELSE IF ~IsItemLine(lines[i]) THEN PdfLines(lines, i + 1)
    ELSE The({ IF r.raises \/ tail.raises
               THEN [raises |-> TRUE, line_items |-> << >>]
               ELSE [raises |-> FALSE, line_items |-> r.item \o tail.line_items] :
               r \in {PdfItem(lines, i)}, tail \in {PdfLines(lines, i + 1)} })

\* re.search(r'(SB-SHIPPING - PRN \d+)', ...) in one line: <<group 1>> or << >>
SearchPrn(line) ==
    LET lit == "SB-SHIPPING - PRN "
        P   == {i \in 1..Len(line) :
                  /\ Slice(line, i, i + Len(lit) - 1) = lit
                  /\ SpanIn(From(line, i + Len(lit)), Digits) >= 1}
    IN  IF P = {} THEN << >>
        ELSE LET i == MinOf(P)
             IN  <<lit \o SubSeq(line, i + Len(lit),
                       i + Len(lit) - 1 + SpanIn(From(line, i + Len(lit)), Digits))>>

\* x in all_text, for an x without '\n'
InText(x, lines) == \E i \in 1..Len(lines) : IsSubstring(x, lines[i])

PdfContact(lines) ==
    LET M == {i \in 1..Len(lines) : SearchPrn(lines[i]) # << >>}
        found == IF InText("SB-SHIPPING - PRN", lines) /\ M # {}
                 THEN Txt(Strip(SearchPrn(lines[MinOf(M)])[1])) ELSE None
    IN  IF ~Truthy(found) /\ InText("HK SB-SHIPPING", lines)
        THEN Txt("HK SB-SHIPPING") ELSE found

PdfPurpose(lines) ==
    IF InText("REPAIR_AND_RETURN", lines) /\ InText("SB-SHIPPING", lines)
    THEN Txt("SB-SHIPPING - REPAIR_AND_RETURN") ELSE None

\* all_text.split('\n'): the pages' lines, and the '' after the last '\n'
RECURSIVE AllLines(_)
AllLines(pgs) ==
    IF Len(pgs) = 0 THEN <<"">> ELSE Head(pgs).lines \o AllLines(Tail(pgs))

\* extract_pdf_data(): raises, or the pdf_data returned
ExtractPdfData(pgs) ==
    IF \E k \in 1..Len(pgs) : ~pgs[k].has_text
    THEN [raises |-> TRUE,
          data |-> [contact_name |-> None, purpose_of_shipment |-> None,
                    line_items |-> << >>]]
    ELSE The({ The({ [ raises |-> loop.raises,
                       data   |-> [ contact_name        |-> PdfContact(lines),
                                    purpose_of_shipment |-> PdfPurpose(lines),
                                    line_items          |-> loop.line_items ] ] :
                     loop \in {PdfLines(lines, 1)} }) :
               lines \in {AllLines(pgs)} })

-----------------------------------------------------------------------------
(* verify: the two header checks (the glyphs of the status tags, a check   *)
(* mark and a cross, are written [v] and [x])                              *)

ExpectedContact == "SB-SHIPPING - PRN 5789187"
ExpectedPurpose == "SB-SHIPPING - REPAIR_AND_RETURN"
StatusPass      == "[v] PASS"
StatusFail      == "[x] FAIL"

\* (variant) the comparison made after trimming
ContactNameResultTrimmed(excel_value, pdf_value) ==
    LET contact_pass == /\ pdf_value.t = "str"
                        /\ Strip(pdf_value.s) = ExpectedContact
    IN  [ required    |-> ExpectedContact,
          excel_value |-> excel_value,
          pdf_value   |-> pdf_value,
          status      |-> IF contact_pass THEN StatusPass ELSE StatusFail ]

\* (variant) the contact name of the sheet required to be the expected one too
ContactNameResultBoth(excel_value, pdf_value) ==
    LET contact_pass == /\ pdf_value = Txt(ExpectedContact)
                        /\ excel_value = Txt(ExpectedContact)
    IN  [ required    |-> ExpectedContact,
          excel_value |-> excel_value,
          pdf_value   |-> pdf_value,
          status      |-> IF contact_pass THEN StatusPass ELSE StatusFail ]

ContactNameResult(excel_value, pdf_value) ==
    LET contact_pass == (pdf_value = Txt(ExpectedContact))
    IN  [ required    |-> ExpectedContact,
          excel_value |-> excel_value,
          pdf_value   |-> pdf_value,
          status      |-> IF contact_pass THEN StatusPass ELSE StatusFail ]

PurposeResult(pdf_value) ==
    LET purpose_pass == (pdf_value = Txt(ExpectedPurpose))
    IN  [ required  |-> ExpectedPurpose,
          pdf_value |-> pdf_value,
          status    |-> IF purpose_pass THEN StatusPass ELSE StatusFail ]

-----------------------------------------------------------------------------
(* __init__ and generate_report.  verification_results is the dict of      *)
(* __init__; an empty dict is << >>, a filled one <<the record>>.  The     *)
(* box-drawing glyphs of the banner are written + = |.                     *)

\* datetime.now().strftime('%Y-%m-%d %H:%M:%S'), now in seconds after the
\* midnight of a fixed day
TimeText(n) ==
    "2025-01-01 " \o ZeroPad(ToString((n \div 3600) % 24), 2) \o ":"
                  \o ZeroPad(ToString((n \div 60) % 60), 2) \o ":"
                  \o ZeroPad(ToString(n % 60), 2)

NewResults(n) ==
    [ timestamp           |-> TimeText(n),
      contact_name        |-> << >>,
      purpose_of_shipment |-> << >>,
      line_items          |-> [summary |-> << >>, details |-> << >>] ]

\* verify, after the two extractions
VerifyResults(vresults, excel, pdf) ==
    [ vresults EXCEPT
        !.contact_name = <<ContactNameResult(excel.contact_name, pdf.contact_name)>>,
        !.purpose_of_shipment = <<PurposeResult(pdf.purpose_of_shipment)>>,
        !.line_items = [ summary     |-> <<CompareLineItems(excel.line_items,
                                                            pdf.line_items)>>,
                         excel_items |-> excel.line_items,
                         pdf_items   |-> pdf.line_items ] ]

RECURSIVE Repeat(_, _)
Repeat(c, n) == IF n <= 0 THEN "" ELSE c \o Repeat(c, n - 1)

\* "\n".join(lines[lo..hi]), the two halves joined first
RECURSIVE JoinRange(_, _, _)
JoinRange(lines, lo, hi) ==
    IF lo > hi THEN ""
    ELSE IF lo = hi THEN lines[lo]
    ELSE The({ JoinRange(lines, lo, mid) \o "\n" \o JoinRange(lines, mid + 1, hi) :
               mid \in {(lo + hi) \div 2} })

\* "\n".join(lines)
JoinNl(lines) == JoinRange(lines, 1, Len(lines))

\* the eight lines printed for one item
ItemLines(item) ==
    << "  Quantity:     " \o PyStr(item.quantity),
       "  Net Weight:   " \o PyStr(item.net_weight) \o " kg",
       "  Description:  " \o Slice(item.description.s, 1, 80) \o "...",
       "  HS Code:      " \o PyStr(item.hs_code),
       "  Country:      " \o PyStr(item.country_code),
       "  Year:         " \o PyStr(item.year),
       "  Unit Value:   $" \o PyStr(item.unit_value),
       "  Total Value:  $" \o PyStr(item.total_value) >>

MatchMark(same, different) == IF same THEN "[v] Match" ELSE different

RECURSIVE MismatchLines(_, _)
MismatchLines(mismatches, idx) ==
    IF idx > Len(mismatches) THEN << >>
    ELSE LET mismatch == mismatches[idx]
             diffs    == mismatch.differences
         IN  << "Discrepancy #" \o ToString(idx) \o " - Match Score: "
                   \o mismatch.match_score,
                Repeat("-", 100),
                "YOUR EXCEL:" >>
             \o ItemLines(mismatch.excel_item)
             \o << "\nFEDEX PDF:" >>
             \o ItemLines(mismatch.pdf_item)
             \o << "\nFIELD-BY-FIELD COMPARISON:",
                   "  Quantity:     " \o MatchMark(diffs.quantity, "[x] DIFFERENT"),
                   "  Net Weight:   " \o MatchMark(diffs.net_weight, "[x] DIFFERENT"),
                   "  Description:  " \o MatchMark(diffs.description, "[x] DIFFERENT"),
                   "  HS Code:      " \o MatchMark(diffs.hs_code,
                                           "[x] DIFFERENT (Should all be 970531)"),
                   "  Country:      " \o MatchMark(diffs.country_code, "[x] DIFFERENT"),
                   "  Year:         " \o MatchMark(diffs.year, "[x] DIFFERENT"),
                   "  Unit Value:   " \o MatchMark(diffs.unit_value, "[x] DIFFERENT"),
                   "  Total Value:  " \o MatchMark(diffs.total_value, "[x] DIFFERENT"),
                   "\n" >>
             \o MismatchLines(mismatches, idx + 1)

RECURSIVE UnmatchedLines(_, _, _)
UnmatchedLines(title, items, idx) ==
    IF idx > Len(items) THEN << >>
    ELSE << title \o ToString(idx) \o ":" >>
         \o ItemLines(items[idx])
         \o << "" >>
         \o UnmatchedLines(title, items, idx + 1)

\* (variant) the item verdict from the perfect-match count alone
ItemsOkByCount(summary) ==
    summary.perfect_matches = summary.total_excel

ItemsOk(summary) ==
    /\ summary.perfect_matches = summary.total_excel
    /\ Len(summary.mismatches) = 0
    /\ Len(summary.unmatched_excel) = 0
    /\ Len(summary.unmatched_pdf) = 0

\* (variant) the dashboard's verdict from the two header checks alone
OverallPassHeadersOnly(vresults) ==
    LET contact_ok == vresults.contact_name[1].status = StatusPass
        purpose_ok == vresults.purpose_of_shipment[1].status = StatusPass
    IN  contact_ok /\ purpose_ok

\* streamlit_app: overall_pass = contact_ok and purpose_ok and items_ok
OverallPass(vresults) ==
    LET contact_ok == vresults.contact_name[1].status = StatusPass
        purpose_ok == vresults.purpose_of_shipment[1].status = StatusPass
        items_ok   == ItemsOk(vresults.line_items.summary[1])
    IN  contact_ok /\ purpose_ok /\ items_ok

\* streamlit_app: the markers of one partial match, in the order shown;
\* status TRUE is shown as the check mark, FALSE as the cross
FieldsStatus(diffs) ==
    << [field |-> "Quantity",   status |-> diffs.quantity],
       [field |-> "Weight",     status |-> diffs.net_weight],
       [field |-> "HS Code",    status |-> diffs.hs_code],
       [field |-> "Country",    status |-> diffs.country_code],
       [field |-> "Year",       status |-> diffs.year],
       [field |-> "Unit Value", status |-> diffs.unit_value],
       [field |-> "Total",      status |-> diffs.total_value] >>

\* streamlit_app: one expander per entry of summary['mismatches']
DetailedDiscrepancies(mismatches) ==
    [idx \in 1..Len(mismatches) |-> FieldsStatus(mismatches[idx].differences)]

PassBanner ==
    << "+=======================================================================================+",
       "|  [v][v][v] ALL VERIFICATION CHECKS PASSED [v][v][v]                                              |",
       "|  Your invoice matches FedEx invoice perfectly on ALL 7 FIELDS!                       |",
       "|  [v] Quantity [v] Weight [v] Description [v] HS Code [v] Country [v] Year [v] Unit Value [v] Total |",
       "+=======================================================================================+" >>

FailBanner ==
    << "+=======================================================================================+",
       "|  [x][x][x] VERIFICATION FAILED - DISCREPANCIES FOUND [x][x][x]                                   |",
       "|  Please review the detailed discrepancies above.                                     |",
       "|  Check: Quantity, Weight, Description, HS Code, Country, Year, Unit Value, Total     |",
       "+=======================================================================================+" >>

\* the four lines above the Generated line
ReportHeading ==
    << Repeat("=", 100),
       "COMPREHENSIVE INVOICE VERIFICATION REPORT",
       "Checking: Quantity | Net Weight | Description | HS Code | Country | Year | Unit Value | Total Value",
       Repeat("=", 100) >>

\* the list lines of generate_report, for results filled by verify
ReportLines(vresults) ==
    LET cn         == vresults.contact_name[1]
        pos        == vresults.purpose_of_shipment[1]
        summary    == vresults.line_items.summary[1]
        contact_ok == cn.status = StatusPass
        purpose_ok == pos.status = StatusPass
        items_ok   == ItemsOk(summary)
    IN  ReportHeading
        \o << "Generated: " \o vresults.timestamp \o "\n",
           Repeat("-", 100),
           "1. CONTACT NAME VERIFICATION",
           Repeat("-", 100),
           "Required: " \o cn.required,
           "Your Excel: " \o PyStr(cn.excel_value),
           "FedEx PDF:  " \o PyStr(cn.pdf_value),
           "Result: " \o cn.status \o "\n",
           Repeat("-", 100),
           "2. PURPOSE OF SHIPMENT VERIFICATION",
           Repeat("-", 100),
           "Required: " \o pos.required,
           "FedEx PDF: " \o PyStr(pos.pdf_value),
           "Result: " \o pos.status \o "\n",
           Repeat("-", 100),
           "3. LINE ITEMS VERIFICATION - ALL 7 FIELDS",
           Repeat("-", 100),
           "Total in Excel:      " \o ToString(summary.total_excel),
           "Total in PDF:        " \o ToString(summary.total_pdf),
           "Perfect Matches:     " \o ToString(summary.perfect_matches),
           "Partial Matches:     " \o ToString(Len(summary.mismatches)),
           "Excel Only:          " \o ToString(Len(summary.unmatched_excel)),
           "PDF Only:            " \o ToString(Len(summary.unmatched_pdf)) \o "\n" >>
        \o (IF Len(summary.mismatches) > 0
            THEN << Repeat("=", 100),
                    "ITEMS WITH DISCREPANCIES (PARTIAL MATCHES)",
                    Repeat("=", 100) \o "\n" >>
                 \o MismatchLines(summary.mismatches, 1)
            ELSE << >>)
        \o (IF Len(summary.unmatched_excel) > 0
            THEN << Repeat("=", 100),
                    "ITEMS ONLY IN YOUR EXCEL ("
                       \o ToString(Len(summary.unmatched_excel))
                       \o " items - NOT FOUND IN FEDEX PDF)",
                    Repeat("=", 100) \o "\n" >>
                 \o UnmatchedLines("Excel Item #", summary.unmatched_excel, 1)
            ELSE << >>)
        \o (IF Len(summary.unmatched_pdf) > 0
            THEN << Repeat("=", 100),
                    "ITEMS ONLY IN FEDEX PDF ("
                       \o ToString(Len(summary.unmatched_pdf))
                       \o " items - NOT FOUND IN YOUR EXCEL)",
                    Repeat("=", 100) \o "\n" >>
                 \o UnmatchedLines("FedEx PDF Item #", summary.unmatched_pdf, 1)
            ELSE << >>)
        \o << Repeat("=", 100),
              "FINAL VERIFICATION SUMMARY",
              Repeat("=", 100),
              "Contact Name:        " \o cn.status,
              "Purpose of Shipment: " \o pos.status,
              "All Line Items:      "
                 \o (IF items_ok THEN "[v] PASS - All 7 fields match perfectly"
                     ELSE "[x] FAIL - See discrepancies above"),
              "Perfect Matches:     " \o ToString(summary.perfect_matches) \o "/"
                 \o ToString(summary.total_excel),
              "" >>
        \o (IF contact_ok /\ purpose_ok /\ items_ok THEN PassBanner ELSE FailBanner)
        \o << "" >>

\* (variant) the Generated line written from the clock at the time of writing
ReportTextAtWrite(vresults) ==
    The({ JoinNl(lines) :
          lines \in {ReportLines([vresults EXCEPT !.timestamp = TimeText(now)])} })

\* report_text
ReportText(vresults) ==
    The({ JoinNl(lines) : lines \in {ReportLines(vresults)} })

\* generate_report raises KeyError at cn['required'] when verify has not
\* filled the results
ReportRaises(vresults) == vresults.contact_name = << >>

-----------------------------------------------------------------------------
(* Bounds and the sets the arguments are drawn from *)

MaxExcel == 2
MaxPdf   == 2
MaxCalls == 2

SeqsUpTo(S, n) == UNION {[1..k -> S] : k \in 0..n}

ItemBase ==
    [ quantity     |-> Num(10 * Scale), net_weight  |-> Num(Scale),
      description  |-> Txt("Coin"),     hs_code     |-> Txt("970531"),
      country_code |-> Txt("GB"),       year        |-> IntV(1990),
      unit_value   |-> Num(5 * Scale),  total_value |-> Num(50 * Scale) ]

\* agrees with ItemBase on all 8 fields (description by containment)
ItemLongDesc == [ItemBase EXCEPT !.description = Txt(" COIN \t1990")]
\* agree with ItemBase on 7 fields
ItemTotal55  == [ItemBase EXCEPT !.total_value = Num(55 * Scale)]
ItemUS       == [ItemBase EXCEPT !.country_code = Txt("US")]
\* agrees with ItemBase on 4 fields
ItemHalf     == [ItemBase EXCEPT !.quantity = Num(20 * Scale),
                                 !.net_weight = None,
                                 !.unit_value = Num(6 * Scale),
                                 !.total_value = Num(120 * Scale)]
\* agrees with ItemBase on 3 fields
ItemFar      == [ItemHalf EXCEPT !.description = Txt("Note"),
                                 !.year = None]

ItemPool == {ItemBase, ItemLongDesc, ItemTotal55, ItemUS, ItemHalf, ItemFar}

\* the items of the pool extract_pdf_data can deliver: it appends an item
\* only with a quantity, a net weight, an hs code and a country code
PdfItemPool == {item \in ItemPool : Truthy(item.net_weight)}

ValuePool ==
    { None, IntV(5), Num(0), Num(Tolerance), Num(Scale), Num(1010000),
      Num(5 * Scale), Num(5005000), Num(5010000), Num(5020000),
      Txt("5.00"), Txt("abc"), Txt("abd"), Txt("1,730.00") }

ContactPool ==
    { None, Txt(ExpectedContact), Txt(ExpectedContact \o " "),
      Txt("SB-SHIPPING - PRN 1234567"), Txt("HK SB-SHIPPING") }

PurposePool ==
    { None, Txt(ExpectedPurpose), Txt(ExpectedPurpose \o " "),
      Txt("GIFT") }

\* descriptions: absent, empty, blank, one wording and longer, shorter,
\* re-spaced, re-cased and reordered wordings of it
DescPool ==
    { None, Txt(""), Txt("  "), Txt("Coin"), Txt(" COIN \t1990"),
      Txt("coin  1990"), Txt("coin 1990"), Txt("1990 Coin"), Txt("Co in"),
      Txt("in 19"), Txt("Note") }

\* line items as the two extractions deliver them, varied in hs_code,
\* country_code and year: the Excel side keeps the whitespace of the HTS cell
\* (only the dot is removed), strips the country code, and has None for an
\* empty cell; the PDF side has single tokens, and None for the year only
ExcelSidePool ==
    { [ItemBase EXCEPT !.hs_code = h, !.country_code = c, !.year = y] :
        h \in {Txt("970531"), Txt("970531 "), Txt("970532"), None},
        c \in {Txt("GB"), Txt("US"), None},
        y \in {IntV(1990), IntV(2001), None} }

PdfSidePool ==
    { [ItemBase EXCEPT !.hs_code = h, !.country_code = c, !.year = y] :
        h \in {Txt("970531"), Txt("970532")},
        c \in {Txt("GB"), Txt("US")},
        y \in {IntV(1990), IntV(2001), None} }

MaxRows  == 2
MaxPages == 2
MaxRuns  == 2
MaxClock == 2

NonEmptySeqsUpTo(S, n) == UNION {[1..k -> S] : k \in 1..n}

\* the cells of one sheet row
Row(rank, quantity, hs_code, country_code, year, description, net_weight_kg, total_value) ==
    [ rank |-> rank, quantity |-> quantity, hs_code |-> hs_code,
      country_code |-> country_code, year |-> year, description |-> description,
      net_weight_kg |-> net_weight_kg, total_value |-> total_value ]

RowOk   == Row(Num(Scale), Num(10 * Scale), Txt("9705.31"), Txt("GB"),
               Num(1990 * Scale), Txt("Coin"), Num(Scale), Num(50 * Scale))
RowNote == Row(Num(2 * Scale), Num(2 * Scale), IntV(970531), Txt(" US "),
               IntV(2001), Txt("Bank Note "), Num(Scale \div 2), Num(5 * Scale))
RowQuantityZero   == [RowOk EXCEPT !.quantity = Num(0)]
RowZeros          == [RowOk EXCEPT !.net_weight_kg = Num(0), !.year = IntV(0),
                                   !.total_value = Num(0)]
RowQuantityText   == [RowOk EXCEPT !.quantity = Txt("abc")]
RowYearText       == [RowOk EXCEPT !.year = Txt("n/a")]
RowNoDescription  == [RowOk EXCEPT !.description = NaN]
RowBlankDescription == [RowOk EXCEPT !.description = Txt("  ")]
RowNoRank         == [RowOk EXCEPT !.rank = NaN]
RowNoCountry      == [RowOk EXCEPT !.country_code = NaN]
RowTotal          == [RowOk EXCEPT !.rank = Txt("Total"), !.quantity = NaN,
                                   !.description = NaN]

RowPool ==
    { RowOk, RowNote, RowQuantityZero, RowZeros, RowQuantityText, RowYearText,
      RowNoDescription, RowBlankDescription, RowNoRank, RowNoCountry, RowTotal }

Sheet(contact, rows) == [contact |-> contact, has_rank |-> TRUE, rows |-> rows]

SheetPool ==
    {Sheet(Txt(ExpectedContact), rows) : rows \in SeqsUpTo(RowPool, MaxRows)}

FewSheets ==
    { Sheet(Txt(ExpectedContact), <<RowOk>>),
      Sheet(NaN, <<RowOk, RowNote>>),
      Sheet(Txt(" HK SB-SHIPPING"), <<RowNote, RowOk>>),
      [contact |-> NaN, has_rank |-> FALSE, rows |-> <<RowOk>>] }

Page(lines) == [has_text |-> TRUE, lines |-> lines]

LineOk   == "10.00 1.00 PCS Collectors pieces 970531 GB 5.000000 50.00"
LineNote == "2.00 0.50 PCS Collectors pieces 970531 US 2.500000 5.00"

PageHeader  == Page(<<"Contact SB-SHIPPING - PRN 5789187 ",
                      "Purpose SB-SHIPPING - REPAIR_AND_RETURN">>)
PageOtherHeader == Page(<<"HK SB-SHIPPING - GIFT">>)
PageOk      == Page(<<LineOk, "Coin 1990">>)
PageNote    == Page(<<LineNote, "Bank Note 2001", "Total 55.00">>)
PageQuantityZero ==
    Page(<<"0.00 1.00 PCS Collectors pieces 970531 GB 5.000000 50.00", "Coin 1990">>)
PageWeightZero ==
    Page(<<"10.00 0.00 PCS Collectors pieces 970531 GB 5.000000 50.00", "Coin 1990">>)
PageBadUnit ==
    Page(<<"10.00 1.00 PCS Collectors pieces 970531 GB 5.0.0 50.00", "Coin 1990">>)
PageUnitText ==
    Page(<<"10.00 1.00 PCS Collectors pieces 970531 GB N/A 50.00", "Coin 1990">>)
PageNoHsCode ==
    Page(<<"10.00 1.00 PCS Collectors pieces GB 5.000000 50.00", "Coin 1990">>)
PageComma   ==
    Page(<<"346.00 3.46 PCS Collectors pieces 970531 GB 5.000000 1,730.00">>)
PageNoText  == [has_text |-> FALSE, lines |-> << >>]

PagePool ==
    { PageHeader, PageOtherHeader, PageOk, PageNote, PageQuantityZero,
      PageWeightZero, PageBadUnit, PageUnitText, PageNoHsCode, PageComma,
      PageNoText }

PdfPool == NonEmptySeqsUpTo(PagePool, MaxPages)

FewPdfs ==
    { <<PageHeader, Page(PageOk.lines \o PageNote.lines)>>,
      <<Page(PageHeader.lines \o PageOk.lines)>>,
      <<PageOtherHeader, PageNote>> }

\* what the cell df.iloc[7, 1] can hold: nothing, the required name, another
ExcelContactCells == {NaN, Txt(ExpectedContact), Txt(" HK SB-SHIPPING")}

\* the documents of the runs of Spec
RunSheets ==
    FewSheets \cup
    { Sheet(Txt(ExpectedContact), <<RowZeros>>),
      Sheet(Txt(ExpectedContact), <<RowNoCountry, RowNote>>),
      Sheet(Txt(ExpectedContact), <<RowOk, RowYearText>>) }

RunPdfs ==
    FewPdfs \cup
    { <<PageHeader, PageUnitText>>,
      <<PageHeader, PageComma, PageNote>>,
      <<PageHeader, PageNote, PageOk>>,
      <<PageHeader, PageNoText>> }

-----------------------------------------------------------------------------
(* SpecPure: one helper applied once to drawn arguments *)

MatchIdle ==
    /\ excel_items = << >> /\ pdf_items = << >>
    /\ mpc = "off" /\ excel_idx = 0
    /\ matched_pdf_indices = {} /\ matched_excel_indices = {}
    /\ results = CompareLocals(<< >>, << >>).results
    /\ pairs = << >> /\ returned = << >>

PureIdle == fn = "off" /\ arg1 = None /\ arg2 = None /\ ret = << >>

\* no dashboard run yet
DashIdle ==
    /\ excel_name = "" /\ excel_path = << >> /\ pdf_path = << >>
    /\ temp_files = {} /\ fields_status = << >>

LifeIdle ==
    /\ sheet = [contact |-> NaN, has_rank |-> FALSE, rows |-> << >>]
    /\ pages = << >>
    /\ now = 0 /\ runs = 0 /\ vpc = "off"
    /\ verification_results = NewResults(0)
    /\ excel_data = << >> /\ pdf_data = << >>
    /\ report_file = << >> /\ reports = << >>
    /\ overall_pass = << >>
    /\ DashIdle

InitPure ==
    /\ \/ fn = "compare_values" /\ arg1 \in ValuePool /\ arg2 \in ValuePool
       \/ fn = "contact_name"   /\ arg1 \in ContactPool /\ arg2 \in ContactPool
       \/ fn = "purpose_of_shipment" /\ arg1 \in PurposePool /\ arg2 = None
       \/ fn = "desc_match"     /\ arg1 \in DescPool /\ arg2 \in DescPool
       \/ fn = "differences"    /\ arg1 \in ExcelSidePool /\ arg2 \in PdfSidePool
    /\ ret = << >>
    /\ MatchIdle
    /\ LifeIdle

ApplyCompareValues ==
    /\ fn = "compare_values" /\ ret = << >>
    /\ ret' = <<CompareValues(arg1, arg2)>>
    /\ UNCHANGED <<fn, arg1, arg2, matchVars, lifeVars>>

\* arg1 is excel_data['contact_name'], arg2 pdf_data['contact_name']
ApplyContactCheck ==
    /\ fn = "contact_name" /\ ret = << >>
    /\ ret' = <<ContactNameResult(arg1, arg2)>>
    /\ UNCHANGED <<fn, arg1, arg2, matchVars, lifeVars>>

\* arg1 is pdf_data['purpose_of_shipment']
ApplyPurposeCheck ==
    /\ fn = "purpose_of_shipment" /\ ret = << >>
    /\ ret' = <<PurposeResult(arg1)>>
    /\ UNCHANGED <<fn, arg1, arg2, matchVars, lifeVars>>

\* desc_match of compare_line_items: arg1 is excel_item['description'],
\* arg2 pdf_item['description']
ApplyDescMatch ==
    /\ fn = "desc_match" /\ ret = << >>
    /\ ret' = <<DescMatch([description |-> arg1], [description |-> arg2])>>
    /\ UNCHANGED <<fn, arg1, arg2, matchVars, lifeVars>>

\* the agreement vector of compare_line_items: arg1 is excel_item, arg2
\* pdf_item
ApplyDifferences ==
    /\ fn = "differences" /\ ret = << >>
    /\ ret' = <<Differences(arg1, arg2)>>
    /\ UNCHANGED <<fn, arg1, arg2, matchVars, lifeVars>>

NextPure ==
    \/ ApplyCompareValues
    \/ ApplyContactCheck
    \/ ApplyPurposeCheck
    \/ ApplyDescMatch
    \/ ApplyDifferences

SpecPure == InitPure /\ [][NextPure]_vars

-----------------------------------------------------------------------------
(* SpecMatch: compare_line_items called on drawn lists, MaxCalls times *)

InitMatch ==
    /\ PureIdle
    /\ LifeIdle
    /\ excel_items \in SeqsUpTo(ItemPool, MaxExcel)
    /\ pdf_items \in SeqsUpTo(PdfItemPool, MaxPdf)
    /\ mpc = "call" /\ excel_idx = 0
    /\ matched_pdf_indices = {} /\ matched_excel_indices = {}
    /\ results = CompareLocals(<< >>, << >>).results
    /\ pairs = << >> /\ returned = << >>

Locals ==
    [ excel_idx             |-> excel_idx,
      matched_pdf_indices   |-> matched_pdf_indices,
      matched_excel_indices |-> matched_excel_indices,
      pairs                 |-> pairs,
      results               |-> results ]

SetLocals(loc) ==
    /\ excel_idx' = loc.excel_idx
    /\ matched_pdf_indices' = loc.matched_pdf_indices
    /\ matched_excel_indices' = loc.matched_excel_indices
    /\ pairs' = loc.pairs
    /\ results' = loc.results

\* (variant) the claimed-index sets kept from one call to the next
CompareStartStale ==
    /\ mpc = "call"
    /\ SetLocals([CompareLocals(excel_items, pdf_items) EXCEPT
                    !.matched_pdf_indices = matched_pdf_indices])
    /\ mpc' = "loop"
    /\ UNCHANGED <<excel_items, pdf_items, returned, pureVars, lifeVars>>

\* entry: results = {...}, matched_pdf_indices = set(), ...
CompareStart ==
    /\ mpc = "call"
    /\ SetLocals(CompareLocals(excel_items, pdf_items))
    /\ mpc' = "loop"
    /\ UNCHANGED <<excel_items, pdf_items, returned, pureVars, lifeVars>>

\* one excel_item of the outer loop
CompareStep ==
    /\ mpc = "loop" /\ excel_idx <= Len(excel_items)
    /\ SetLocals(MatchOne(Locals, excel_items, pdf_items))
    /\ UNCHANGED <<mpc, excel_items, pdf_items, returned, pureVars, lifeVars>>

\* the unmatched lists, and return
CompareFinish ==
    /\ mpc = "loop" /\ excel_idx > Len(excel_items)
    /\ results' = FinishCompare(Locals, excel_items, pdf_items)
    /\ returned' = Append(returned, results')
    /\ mpc' = "returned"
    /\ UNCHANGED <<excel_idx, matched_pdf_indices, matched_excel_indices,
                   pairs, excel_items, pdf_items, pureVars, lifeVars>>

\* the caller calls again with the same two lists
CompareAgain ==
    /\ mpc = "returned" /\ Len(returned) < MaxCalls
    /\ mpc' = "call"
    /\ UNCHANGED <<excel_idx, matched_pdf_indices, matched_excel_indices,
                   pairs, results, excel_items, pdf_items, returned, pureVars, lifeVars>>

NextMatch == CompareStart \/ CompareStep \/ CompareFinish \/ CompareAgain

SpecMatch == InitMatch /\ [][NextMatch]_vars

-----------------------------------------------------------------------------
(* Spec: verifiers constructed one after the other on the same sheet and   *)
(* the same pages; each runs verify() and generate_report(output_path)     *)

Init ==
    /\ PureIdle
    /\ MatchIdle
    /\ sheet \in RunSheets /\ pages \in RunPdfs
    /\ now = 0 /\ runs = 0 /\ vpc = "none"
    /\ verification_results = NewResults(0)
    /\ excel_data = << >> /\ pdf_data = << >>
    /\ report_file = << >> /\ reports = << >>
    /\ overall_pass = << >>
    /\ DashIdle

\* the clock advances
Tick ==
    /\ vpc # "off" /\ now < MaxClock
    /\ now' = now + 1
    /\ UNCHANGED <<sheet, pages, runs, vpc, verification_results, excel_data,
                   pdf_data, report_file, reports, overall_pass,
                   dashVars, pureVars, matchVars>>

\* ComprehensiveInvoiceVerifier(excel_path, pdf_path)
Construct ==
    /\ vpc \in {"none", "converted", "reported", "displayed", "verify_raised",
               "report_raised"}
    /\ runs < MaxRuns
    /\ runs' = runs + 1
    /\ verification_results' = NewResults(now)
    /\ excel_data' = << >> /\ pdf_data' = << >>
    /\ overall_pass' = << >> /\ fields_status' = << >>
    /\ vpc' = "constructed"
    /\ UNCHANGED <<sheet, pages, now, report_file, reports, excel_name,
                   excel_path, pdf_path, temp_files, pureVars, matchVars>>

\* verify: excel_data = self.extract_excel_data()
VerifyExtractExcel ==
    /\ vpc = "constructed"
    /\ \E r \in {ExtractExcelData(sheet)} :
          IF r.raises
          THEN vpc' = "verify_raised" /\ UNCHANGED excel_data
          ELSE vpc' = "excel_read" /\ excel_data' = <<r.data>>
    /\ UNCHANGED <<sheet, pages, now, runs, verification_results, pdf_data,
                   report_file, reports, overall_pass,
                   dashVars, pureVars, matchVars>>

\* verify: pdf_data = self.extract_pdf_data()
VerifyExtractPdf ==
    /\ vpc = "excel_read"
    /\ \E r \in {ExtractPdfData(pages)} :
          IF r.raises
          THEN vpc' = "verify_raised" /\ UNCHANGED pdf_data
          ELSE vpc' = "pdf_read" /\ pdf_data' = <<r.data>>
    /\ UNCHANGED <<sheet, pages, now, runs, verification_results, excel_data,
                   report_file, reports, overall_pass,
                   dashVars, pureVars, matchVars>>

\* verify: the three checks, and return
VerifyChecks ==
    /\ vpc = "pdf_read"
    /\ verification_results' =
          VerifyResults(verification_results, excel_data[1], pdf_data[1])
    /\ vpc' = "verified"
    /\ UNCHANGED <<sheet, pages, now, runs, excel_data, pdf_data,
                   report_file, reports, overall_pass,
                   dashVars, pureVars, matchVars>>

\* (variant) generate_report opening output_path before it builds the lines
GenerateReportOpensFirst ==
    /\ vpc \in {"constructed", "verify_raised", "verified"}
    /\ IF ReportRaises(verification_results)
       THEN vpc' = "report_raised" /\ report_file' = <<"">> /\ UNCHANGED reports
       ELSE \E report_text \in {ReportText(verification_results)} :
               /\ report_file' = <<report_text>>
               /\ reports' = Append(reports,
                                [ timestamp  |-> verification_results.timestamp,
                                  excel_data |-> excel_data[1],
                                  pdf_data   |-> pdf_data[1],
                                  results    |-> verification_results,
                                  text       |-> report_text ])
               /\ vpc' = "reported"
    /\ UNCHANGED <<sheet, pages, now, runs, verification_results, excel_data,
                   pdf_data, overall_pass,
                   dashVars, pureVars, matchVars>>

\* generate_report(output_path): after verify, without it, or after a verify
\* that raised
GenerateReport ==
    /\ vpc \in {"constructed", "verify_raised", "verified"}
    /\ IF ReportRaises(verification_results)
       THEN vpc' = "report_raised" /\ UNCHANGED <<report_file, reports>>
       ELSE \E report_text \in {ReportText(verification_results)} :
               /\ report_file' = <<report_text>>
               /\ reports' = Append(reports,
                                [ timestamp  |-> verification_results.timestamp,
                                  excel_data |-> excel_data[1],
                                  pdf_data   |-> pdf_data[1],
                                  results    |-> verification_results,
                                  text       |-> report_text ])
               /\ vpc' = "reported"
    /\ UNCHANGED <<sheet, pages, now, runs, verification_results, excel_data,
                   pdf_data, overall_pass,
                   dashVars, pureVars, matchVars>>

\* the dashboard, after verifier.verify() and verifier.generate_report():
\* overall_pass from the results verify returned and, when it is false, one
\* row of field markers per partial match
DisplayResults ==
    /\ vpc = "reported"
    /\ \E pass \in {OverallPass(verification_results)} :
          /\ overall_pass' = <<pass>>
          /\ fields_status' =
                IF pass THEN << >>
                ELSE DetailedDiscrepancies(
                        verification_results.line_items.summary[1].mismatches)
    /\ vpc' = "displayed"
    /\ UNCHANGED <<sheet, pages, now, runs, verification_results, excel_data,
                   pdf_data, report_file, reports, excel_name, excel_path,
                   pdf_path, temp_files, pureVars, matchVars>>

\* between two runs the contact cell of the sheet is rewritten
EditExcelContact ==
    /\ vpc \in {"reported", "displayed"} /\ runs < MaxRuns
    /\ \E contact \in ExcelContactCells \ {sheet.contact} :
          sheet' = [sheet EXCEPT !.contact = contact]
    /\ UNCHANGED <<pages, now, runs, vpc, verification_results, excel_data,
                   pdf_data, report_file, reports, overall_pass,
                   dashVars, pureVars, matchVars>>

Next ==
    \/ Tick
    \/ Construct
    \/ VerifyExtractExcel
    \/ VerifyExtractPdf
    \/ VerifyChecks
    \/ GenerateReport
    \/ DisplayResults
    \/ EditExcelContact

Spec == Init /\ [][Next]_vars

-----------------------------------------------------------------------------
(* SpecExtract: the two extractions of verify(), in a verifier constructed  *)
(* on drawn documents                                                      *)

InitExtract ==
    /\ PureIdle
    /\ MatchIdle
    /\ \/ sheet \in SheetPool /\ pages \in FewPdfs
       \/ sheet \in FewSheets /\ pages \in PdfPool
    /\ now = 0 /\ runs = 1 /\ vpc = "constructed"
    /\ verification_results = NewResults(0)
    /\ excel_data = << >> /\ pdf_data = << >>
    /\ report_file = << >> /\ reports = << >>
    /\ overall_pass = << >>
    /\ DashIdle

NextExtract == VerifyExtractExcel \/ VerifyExtractPdf

SpecExtract == InitExtract /\ [][NextExtract]_vars

-----------------------------------------------------------------------------
(* SpecDash: the dashboard's run, button press after button press: the      *)
(* uploads are saved to temporary files, an .xlsb upload is converted, the  *)
(* verifier is constructed and run, the report is written to a temporary    *)
(* file, the results are shown, the temporary files are removed. An error   *)
(* raised on the way is shown by the except clause.                         *)
(* The report's temporary file is the file report_file holds the text of:   *)
(* it exists while report_file is not << >>.                                *)

\* a temporary file: the run that made it and the suffix of its name
TempFile(run, suffix) == [run |-> run, suffix |-> suffix]

\* excel_path.replace('.xlsb', '.xlsx')
XlsxPath(path) == [path EXCEPT !.suffix = ".xlsx"]

\* the names an upload can have (the uploader takes xlsx and xlsb)
ExcelNames == {"invoice.xlsx", "invoice.xlsb"}

\* the row of RowOk under another description
RowMedal == [RowOk EXCEPT !.description = Txt("Medal")]

\* the documents uploaded
DashSheets ==
    { Sheet(Txt(ExpectedContact), <<RowOk>>),
      Sheet(Txt(ExpectedContact), <<RowMedal>>),
      Sheet(Txt(ExpectedContact), <<RowMedal, RowNote>>),
      Sheet(Txt(ExpectedContact), <<RowNoCountry>>),
      [contact |-> NaN, has_rank |-> FALSE, rows |-> <<RowOk>>] }

DashPdfs ==
    { <<Page(PageHeader.lines \o PageOk.lines)>>,
      <<PageHeader, PageNote, PageOk>>,
      <<PageHeader, PageComma>>,
      <<PageHeader, PageNoText>> }

InitDash ==
    /\ PureIdle
    /\ MatchIdle
    /\ sheet \in DashSheets /\ pages \in DashPdfs
    /\ now = 0 /\ runs = 0 /\ vpc = "none"
    /\ verification_results = NewResults(0)
    /\ excel_data = << >> /\ pdf_data = << >>
    /\ report_file = << >> /\ reports = << >>
    /\ overall_pass = << >>
    /\ DashIdle

\* the button is pressed: the two uploads are written to temporary files
SaveUploads ==
    /\ vpc \in {"none", "cleaned", "error_shown"}
    /\ runs < MaxRuns
    /\ \E name \in ExcelNames :
       \E tmp_excel \in {TempFile(runs + 1,
                          IF EndsWith(name, ".xlsx") THEN ".xlsx" ELSE ".xlsb")} :
       \E tmp_pdf \in {TempFile(runs + 1, ".pdf")} :
          /\ excel_name' = name
          /\ excel_path' = <<tmp_excel>>
          /\ pdf_path' = <<tmp_pdf>>
          /\ temp_files' = temp_files \cup {tmp_excel, tmp_pdf}
    /\ vpc' = "uploaded"
    /\ UNCHANGED <<sheet, pages, now, runs, verification_results, excel_data,
                   pdf_data, report_file, reports, overall_pass, fields_status,
                   pureVars, matchVars>>

\* an .xlsb upload is written again as .xlsx, and excel_path is that file
ConvertXlsb ==
    /\ vpc = "uploaded"
    /\ IF EndsWith(excel_name, ".xlsb")
       THEN \E xlsx_path \in {XlsxPath(excel_path[1])} :
               /\ temp_files' = temp_files \cup {xlsx_path}
               /\ excel_path' = <<xlsx_path>>
       ELSE UNCHANGED <<temp_files, excel_path>>
    /\ vpc' = "converted"
    /\ UNCHANGED <<sheet, pages, now, runs, verification_results, excel_data,
                   pdf_data, report_file, reports, overall_pass, excel_name,
                   pdf_path, fields_status, pureVars, matchVars>>

\* the end of the try body: the three paths are unlinked
Cleanup ==
    /\ vpc = "displayed"
    /\ temp_files' = temp_files \ {excel_path[1], pdf_path[1]}
    /\ report_file' = << >>
    /\ vpc' = "cleaned"
    /\ UNCHANGED <<sheet, pages, now, runs, verification_results, excel_data,
                   pdf_data, reports, overall_pass, excel_name, excel_path,
                   pdf_path, fields_status, pureVars, matchVars>>

\* except Exception as e: the error is shown
ShowError ==
    /\ vpc = "verify_raised"
    /\ vpc' = "error_shown"
    /\ UNCHANGED <<sheet, pages, now, runs, verification_results, excel_data,
                   pdf_data, report_file, reports, overall_pass, dashVars,
                   pureVars, matchVars>>

\* other files are uploaded between two runs
UploadOthers ==
    /\ vpc \in {"cleaned", "error_shown"} /\ runs < MaxRuns
    /\ \E s \in DashSheets, p \in DashPdfs :
          /\ <<s, p>> # <<sheet, pages>>
          /\ sheet' = s /\ pages' = p
    /\ UNCHANGED <<now, runs, vpc, verification_results, excel_data,
                   pdf_data, report_file, reports, overall_pass, dashVars,
                   pureVars, matchVars>>

NextDash ==
    \/ SaveUploads
    \/ ConvertXlsb
    \/ vpc = "converted" /\ Construct
    \/ VerifyExtractExcel
    \/ VerifyExtractPdf
    \/ VerifyChecks
    \/ vpc = "verified" /\ GenerateReport
    \/ DisplayResults
    \/ Cleanup
    \/ ShowError
    \/ UploadOthers

SpecDash == InitDash /\ [][NextDash]_vars

-----------------------------------------------------------------------------
(* Claims about compare_line_items (SpecMatch) *)

PairsOf(kind) == {k \in 1..Len(pairs) : pairs[k].kind = kind}
ExcelOf(kind) == {pairs[k].excel : k \in PairsOf(kind)}
PdfOf(kind)   == {pairs[k].pdf : k \in PairsOf(kind)}

\* C1: when compare_line_items returns, every index of A is perfect, partial
\* or unmatched_excel and in one of them only, likewise every index of B;
\* no index of either side is in two pairings; and
\* perfect_matches + len(mismatches) + len(unmatched_x) = total_x on both sides.
C1_PartitionComplete ==
    mpc = "returned" =>
      LET unmatchedA == (1..Len(excel_items)) \ (ExcelOf("perfect") \cup ExcelOf("partial"))
          unmatchedB == (1..Len(pdf_items)) \ (PdfOf("perfect") \cup PdfOf("partial"))
      IN  /\ ExcelOf("perfect") \cap ExcelOf("partial") = {}
          /\ PdfOf("perfect") \cap PdfOf("partial") = {}
          /\ \A k, l \in 1..Len(pairs) :
                k # l => pairs[k].excel # pairs[l].excel /\ pairs[k].pdf # pairs[l].pdf
          /\ ExcelOf("perfect") \cup ExcelOf("partial") \subseteq 1..Len(excel_items)
          /\ PdfOf("perfect") \cup PdfOf("partial") \subseteq 1..Len(pdf_items)
          /\ results.perfect_matches = Cardinality(PairsOf("perfect"))
          /\ Len(results.mismatches) = Cardinality(PairsOf("partial"))
          /\ Len(results.unmatched_excel) = Cardinality(unmatchedA)
          /\ Len(results.unmatched_pdf) = Cardinality(unmatchedB)
          /\ results.perfect_matches + Len(results.mismatches)
               + Len(results.unmatched_excel) = results.total_excel
          /\ results.perfect_matches + Len(results.mismatches)
               + Len(results.unmatched_pdf) = results.total_pdf
          /\ results.total_excel = Len(excel_items)
          /\ results.total_pdf = Len(pdf_items)

\* a call that returned one perfect match, one partial match
C1_Witness ==
    /\ mpc = "returned"
    /\ results.perfect_matches = 1
    /\ Len(results.mismatches) = 1

\* C2: every pairing counted in perfect_matches agrees on all 8 fields, and
\* every entry of mismatches has a score s, 4 <= s <= 7, written "s/8", that
\* is the number of true entries of its differences.
C2_ScoreRange ==
    /\ results.perfect_matches = Cardinality(PairsOf("perfect"))
    /\ \A k \in PairsOf("perfect") :
          \E d \in {Differences(excel_items[pairs[k].excel], pdf_items[pairs[k].pdf])} :
             (\A f \in FieldNames : d[f]) /\ Score(d) = 8
    /\ \A k \in 1..Len(results.mismatches) :
          \E m \in {results.mismatches[k]} :
             \E s \in {Score(m.differences)} :
                /\ 4 <= s /\ s <= 7
                /\ m.match_score = MatchScoreText(s)
                /\ m.differences = Differences(m.excel_item, m.pdf_item)

\* a call that counted a perfect match and recorded a partial match of score 4
C2_Witness ==
    /\ mpc = "returned"
    /\ results.perfect_matches = 1
    /\ \E k \in 1..Len(results.mismatches) :
          results.mismatches[k].match_score = "4/8"

\* C4: a second call on the same two lists returns the summary the first
\* returned: same count, same partial matches, same unmatched lists, same order.
C4_SameSummary ==
    \A k \in 1..Len(returned) : returned[k] = returned[1]

\* two calls made, on lists that gave a perfect, a partial and an unmatched item
C4_Witness ==
    /\ Len(returned) = 2
    /\ returned[2].perfect_matches = 1
    /\ Len(returned[2].mismatches) = 1
    /\ Len(returned[2].unmatched_excel) + Len(returned[2].unmatched_pdf) = 0
    /\ returned[2].total_excel = 2

-----------------------------------------------------------------------------
(* Claims about the pure helpers (SpecPure) *)

\* C9: the contact status is PASS exactly when the contact name handed to the
\* check (the one read from the PDF) is the expected constant, character for
\* character, the purpose status likewise; a trailing space fails; each
\* result carries the required value, the observed values and the status.
C9_HeaderExact ==
    /\ (fn = "contact_name" /\ ret # << >>) =>
          /\ ret[1].status \in {StatusPass, StatusFail}
          /\ ret[1].status = StatusPass <=> arg2 = Txt("SB-SHIPPING - PRN 5789187")
          /\ arg2 = Txt("SB-SHIPPING - PRN 5789187 ") => ret[1].status = StatusFail
          /\ ret[1].required = "SB-SHIPPING - PRN 5789187"
          /\ ret[1].excel_value = arg1 /\ ret[1].pdf_value = arg2
    /\ (fn = "purpose_of_shipment" /\ ret # << >>) =>
          /\ ret[1].status \in {StatusPass, StatusFail}
          /\ ret[1].status = StatusPass <=> arg1 = Txt("SB-SHIPPING - REPAIR_AND_RETURN")
          /\ ret[1].required = "SB-SHIPPING - REPAIR_AND_RETURN"
          /\ ret[1].pdf_value = arg1

\* the contact check applied to the trailing-space variant
C9_Witness ==
    /\ fn = "contact_name" /\ ret # << >>
    /\ arg2 = Txt("SB-SHIPPING - PRN 5789187 ")
    /\ ret[1].status = StatusFail

\* the comparison the claim describes, on the decimal values
ClaimedCompare(a, b) ==
    IF a = None /\ b = None THEN TRUE
    ELSE IF a = None \/ b = None THEN FALSE
    ELSE IF CanFloat(a) /\ CanFloat(b)
         THEN LET d == FloatOf(a) - FloatOf(b)
              IN  (IF d >= 0 THEN d ELSE 0 - d) < Tolerance
         ELSE StrEqual(a, b)

\* C10: compare_values is true for two nulls, false for one null, for two
\* numbers true iff |a - b| < 0.01 (a difference of exactly 0.01 is unequal),
\* and string equality when a value does not parse.
C10_CompareValues ==
    (fn = "compare_values" /\ ret # << >>) => ret[1] = ClaimedCompare(arg1, arg2)

-----------------------------------------------------------------------------
(* Claims about a verification run (Spec) and its extractions (SpecExtract) *)

PassBannerText == JoinNl(PassBanner) \o "\n"
FailBannerText == JoinNl(FailBanner) \o "\n"

\* C3: the report written ends with the PASS banner if and only if the
\* contact check passed, the purpose check passed, perfect_matches equals
\* total_excel and there is no partial match, no unmatched Excel item and no
\* unmatched PDF item; otherwise it ends with the FAILED banner.
C3_BannerIff ==
    vpc = "reported" =>
      LET summary == verification_results.line_items.summary[1]
          all_passed ==
              /\ verification_results.contact_name[1].status = "[v] PASS"
              /\ verification_results.purpose_of_shipment[1].status = "[v] PASS"
              /\ summary.perfect_matches = summary.total_excel
              /\ Len(summary.mismatches) = 0
              /\ Len(summary.unmatched_excel) = 0
              /\ Len(summary.unmatched_pdf) = 0
      IN  /\ all_passed => EndsWith(report_file[1], PassBannerText)
          /\ ~all_passed => EndsWith(report_file[1], FailBannerText)
          /\ ~(EndsWith(report_file[1], PassBannerText)
                 /\ EndsWith(report_file[1], FailBannerText))

\* a report written with the PASS banner, for two items matched perfectly
C3_Witness ==
    /\ vpc = "reported"
    /\ EndsWith(report_file[1], PassBannerText)
    /\ verification_results.line_items.summary[1].perfect_matches = 2

\* a sheet row with a rank and a description
RowHasRankAndDescription(row) ==
    /\ row.rank # NaN /\ row.rank.t = "num"
    /\ row.description # NaN /\ Strip(PyStr(row.description)) # ""

\* the item lines of the pages, and those of the full pattern
ItemLinesOf(lines) == {i \in 1..Len(lines) : IsItemLine(lines[i])}
FullPatternLinesOf(lines) ==
    {i \in ItemLinesOf(lines) : MatchesFullPattern(lines[i], Split(lines[i]))}

\* C5: a record whose quantity is 0 is not omitted for lacking a quantity,
\* and a net weight, year or total value of 0 stays 0 and is not stored as
\* None: a sheet whose rows all have a rank, a description and a number for
\* quantity (0 or not) gives one item per row, in order, with the zeros of the
\* row; pages whose item lines are all of the full pattern with the code
\* 970531 give one item per item line.
C5_ZeroStaysZero ==
    /\ ( /\ excel_data # << >> /\ sheet.has_rank
         /\ \A k \in 1..Len(sheet.rows) :
               /\ RowHasRankAndDescription(sheet.rows[k])
               /\ sheet.rows[k].quantity # NaN /\ sheet.rows[k].quantity.t = "num" )
       => /\ Len(excel_data[1].line_items) = Len(sheet.rows)
          /\ \A k \in 1..Len(sheet.rows) :
                LET row  == sheet.rows[k]
                    item == excel_data[1].line_items[k]
                IN  /\ row.quantity = Num(0) => item.quantity = Num(0)
                    /\ row.net_weight_kg = Num(0) => item.net_weight = Num(0)
                    /\ row.year = IntV(0) => item.year = IntV(0)
                    /\ row.total_value = Num(0) => item.total_value = Num(0)
    /\ ( /\ pdf_data # << >>
         /\ ItemLinesOf(AllLines(pages)) = FullPatternLinesOf(AllLines(pages))
         /\ \A i \in ItemLinesOf(AllLines(pages)) :
               IsSubstring(" 970531 ", AllLines(pages)[i]) )
       => Len(pdf_data[1].line_items) = Cardinality(ItemLinesOf(AllLines(pages)))

\* C6: every record in an extractor's line_items has a quantity that is not
\* None and a description that is not empty; and no record that has both is
\* omitted: a sheet whose rows all have a non-zero number for quantity and a
\* description gives one item per row, pages give one item per item line
\* with a non-zero quantity.
C6_QuantityAndDescription ==
    /\ excel_data # << >> =>
          \A k \in 1..Len(excel_data[1].line_items) :
             /\ excel_data[1].line_items[k].quantity # None
             /\ excel_data[1].line_items[k].description \notin {None, Txt("")}
    /\ pdf_data # << >> =>
          \A k \in 1..Len(pdf_data[1].line_items) :
             /\ pdf_data[1].line_items[k].quantity # None
             /\ pdf_data[1].line_items[k].description \notin {None, Txt("")}
    /\ ( /\ excel_data # << >> /\ sheet.has_rank
         /\ \A k \in 1..Len(sheet.rows) :
               LET row == sheet.rows[k]
               IN  /\ row.rank = NaN \/ row.rank.t = "num"
                   /\ row.quantity # NaN /\ row.quantity.t = "num"
                   /\ row.quantity # Num(0)
                   /\ row.description # NaN
                   /\ Strip(PyStr(row.description)) # "" )
       => Len(excel_data[1].line_items) = Len(sheet.rows)
    /\ pdf_data # << >> =>
          Len(pdf_data[1].line_items) =
             Cardinality({i \in ItemLinesOf(AllLines(pages)) :
                            DecimalValue(Split(AllLines(pages)[i])[1]) # 0})

\* C7: a row whose quantity or year cell is text that is no number, an item
\* line whose value token does not parse, a page without text: the run skips
\* the record and verify does not end in an error.
C7_NoError ==
    vpc # "verify_raised"

\* where the timestamp starts in the text of a report
StampStart == Len(JoinNl(ReportHeading)) + Len("\nGenerated: ") + 1

BeforeStamp(text) == SubSeq(text, 1, StampStart - 1)
StampOf(text, stamp) == SubSeq(text, StampStart, StampStart + Len(stamp) - 1)
AfterStamp(text, stamp) == From(text, StampStart + Len(stamp))

\* C8 as stated: two runs that extracted the same header data and the same
\* line-item lists return the same report text, byte for byte.
C8_ByteIdentical ==
    \A k, l \in 1..Len(reports) :
       (reports[k].excel_data = reports[l].excel_data
          /\ reports[k].pdf_data = reports[l].pdf_data)
       => reports[k].text = reports[l].text

\* C8: two runs that extracted the same header data and the same line-item
\* lists return report texts that are the same but for the time written on
\* the Generated line, which is the time each verifier was constructed, to
\* the second; the texts are the same, byte for byte, when the times are.
C8_SameButGenerated ==
    \A k, l \in 1..Len(reports) :
       (reports[k].excel_data = reports[l].excel_data
          /\ reports[k].pdf_data = reports[l].pdf_data)
       => /\ BeforeStamp(reports[k].text) = BeforeStamp(reports[l].text)
          /\ StampOf(reports[k].text, reports[k].timestamp) = reports[k].timestamp
          /\ AfterStamp(reports[k].text, reports[k].timestamp)
               = AfterStamp(reports[l].text, reports[l].timestamp)
          /\ reports[k].timestamp = reports[l].timestamp
               => reports[k].text = reports[l].text

\* two runs on the same documents, constructed at different seconds
C8_Witness ==
    /\ Len(reports) = 2
    /\ reports[1].excel_data = reports[2].excel_data
    /\ reports[1].pdf_data = reports[2].pdf_data
    /\ reports[1].timestamp # reports[2].timestamp
    /\ reports[1].text # reports[2].text

\* two reports of runs that read the same PDF and the same item rows
SameButExcelContact(k, l) ==
    /\ reports[k].pdf_data = reports[l].pdf_data
    /\ reports[k].excel_data.line_items = reports[l].excel_data.line_items

\* C19: the contact verdict, and with it the final banner, depends on the
\* contact name read from the PDF alone: two runs that differ only in the
\* contact name of the sheet (absent, or other than the required name) have
\* the same contact status and end with the same banner.
C19_ExcelContactIgnored ==
    \A k, l \in 1..Len(reports) :
       SameButExcelContact(k, l) =>
          /\ reports[k].results.contact_name[1].status
               = reports[l].results.contact_name[1].status
          /\ reports[k].results.contact_name[1].status = StatusPass
               <=> reports[k].pdf_data.contact_name = Txt(ExpectedContact)
          /\ EndsWith(reports[k].text, PassBannerText)
               <=> EndsWith(reports[l].text, PassBannerText)
          /\ EndsWith(reports[k].text, FailBannerText)
               <=> EndsWith(reports[l].text, FailBannerText)

\* two runs on the same PDF and rows, the sheet without a contact name in
\* one and with the required name in the other: both passed
C19_Witness ==
    /\ Len(reports) = 2
    /\ SameButExcelContact(1, 2)
    /\ reports[1].excel_data.contact_name = None
    /\ reports[2].excel_data.contact_name = Txt(ExpectedContact)
    /\ reports[1].results.contact_name[1].status = StatusPass
    /\ EndsWith(reports[1].text, PassBannerText)
    /\ EndsWith(reports[2].text, PassBannerText)

\* C20: the verdict the dashboard shows (overall_pass) is the verdict of the
\* banner that ends the text report of the same run: passed with the PASS
\* banner, discrepancies with the FAILED banner.
C20_DashboardIsBanner ==
    vpc = "displayed" =>
       /\ overall_pass[1] <=> EndsWith(report_file[1], PassBannerText)
       /\ ~overall_pass[1] <=> EndsWith(report_file[1], FailBannerText)
       /\ report_file[1] = reports[Len(reports)].text

\* the dashboard shows discrepancies for a run whose two header checks
\* passed and whose items did not all match
C20_Witness ==
    /\ vpc = "displayed"
    /\ overall_pass = <<FALSE>>
    /\ verification_results.contact_name[1].status = StatusPass
    /\ verification_results.purpose_of_shipment[1].status = StatusPass
    /\ EndsWith(report_file[1], FailBannerText)

-----------------------------------------------------------------------------
(* Claims about the description comparison (SpecPure) *)

\* the normal form the claim describes: the words of the text, lowercased,
\* one space between them; nothing for an absent text
ClaimedNormalizeText(desc) ==
    IF desc = None THEN "" ELSE Lower(JoinSpace(Split(desc.s)))

\* C11: two descriptions match exactly when, after normalization (trimmed,
\* lowercased, whitespace runs collapsed, absent as the empty string), one
\* is a substring of the other; swapping the two gives the same answer.
C11_DescriptionsMatch ==
    (fn = "desc_match" /\ ret # << >>) =>
       \E a \in {ClaimedNormalizeText(arg1)}, b \in {ClaimedNormalizeText(arg2)} :
          /\ ret[1] = (IsSubstring(a, b) \/ IsSubstring(b, a))
          /\ ret[1] = DescMatch([description |-> arg2], [description |-> arg1])

\* the longer, re-cased, re-spaced wording compared with the shorter one
C11_Witness ==
    /\ fn = "desc_match" /\ ret = <<TRUE>>
    /\ arg1 = Txt(" COIN \t1990") /\ arg2 = Txt("Coin")

-----------------------------------------------------------------------------
(* Claims about the greedy assignment (SpecMatch) *)

\* the number of fields on which excel_items[i] and pdf_items[j] agree
ScoreOf(i, j) == Score(Differences(excel_items[i], pdf_items[j]))

\* a returned call on two A items and one B item that agrees with the second
\* A item on all 8 fields and with the first on at most n
TwoAgainstOne(n) ==
    /\ mpc = "returned"
    /\ Len(excel_items) = 2 /\ Len(pdf_items) = 1
    /\ ScoreOf(2, 1) = 8
    /\ ScoreOf(1, 1) <= n

FirstUnmatchedSecondPerfect ==
    /\ results.unmatched_excel = <<excel_items[1]>>
    /\ results.perfect_matches = 1
    /\ pairs = <<[excel |-> 2, pdf |-> 1, kind |-> "perfect"]>>
    /\ results.mismatches = << >>
    /\ results.unmatched_pdf = << >>

\* C12 as stated: two A items, one B item agreeing on all 8 fields with the
\* second and on fewer than 8 with the first: the first A item is in
\* unmatched_excel, the second is the perfect match, unmatched_pdf is empty.
C12_SecondIsPerfect ==
    TwoAgainstOne(7) => FirstUnmatchedSecondPerfect

\* C12: the same, when the B item agrees with the first A item on fewer
\* than 4 fields (on 4 to 7 the first A item takes the B item as a partial
\* match and the second A item is the one left in unmatched_excel).
C12_SecondIsPerfectBelowFour ==
    TwoAgainstOne(3) => FirstUnmatchedSecondPerfect

\* such a call, returned
C12_Witness ==
    /\ TwoAgainstOne(3)
    /\ ScoreOf(1, 1) = 3
    /\ FirstUnmatchedSecondPerfect

\* every field but total_value
FieldsButTotal == FieldNames \ {"total_value"}

\* a returned call on one A record and one B record that carry the same
\* values in every field but total_value, 50 in A and 55 in B
OneAgainstOneTotalDiffers ==
    /\ mpc = "returned"
    /\ Len(excel_items) = 1 /\ Len(pdf_items) = 1
    /\ \A f \in FieldsButTotal : excel_items[1][f] = pdf_items[1][f]
    /\ excel_items[1].unit_value # None
    /\ excel_items[1].total_value = Num(50 * Scale)
    /\ pdf_items[1].total_value = Num(55 * Scale)

\* C13: unit_value is compared as each record carries it, by the tolerance
\* rule of quantity and weight, never recomputed from total_value/quantity:
\* one A record and one B record equal in every field but total_value (50
\* and 55) give no perfect match and one partial match, score "7/8", whose
\* only false component is total_value.
C13_UnitValueAsCarried ==
    /\ OneAgainstOneTotalDiffers =>
          /\ results.perfect_matches = 0
          /\ Len(results.mismatches) = 1
          /\ results.mismatches[1].match_score = "7/8"
          /\ \A f \in FieldNames :
                results.mismatches[1].differences[f] <=> f # "total_value"
    /\ \A k \in 1..Len(results.mismatches) :
          \E a \in {results.mismatches[k].excel_item.unit_value},
             b \in {results.mismatches[k].pdf_item.unit_value} :
             (a.t = "num" /\ b.t = "num") =>
                (results.mismatches[k].differences.unit_value
                   <=> AbsDiffBelowTolerance(a.v, b.v))

\* the call of the scenario, returned with its partial match
C13_Witness ==
    /\ OneAgainstOneTotalDiffers
    /\ excel_items[1].unit_value = pdf_items[1].unit_value
    /\ excel_items[1].unit_value = Num(5 * Scale)
    /\ excel_items[1].quantity = Num(10 * Scale)
    /\ Len(results.mismatches) = 1

\* the A items the outer loop has been through
Processed == 1..(excel_idx - 1)

\* the B items claimed when the outer loop reached A item i
ClaimedBefore(i) ==
    {pairs[k].pdf : k \in {l \in 1..Len(pairs) : pairs[l].excel < i}}

\* the scores of all pairs: <<i, j, n>> when A item i and B item j agree on
\* n fields
ScoreTable ==
    { <<i, j, ScoreOf(i, j)>> : i \in 1..Len(excel_items), j \in 1..Len(pdf_items) }

\* the B items not claimed then that agree with A item i on n fields
Candidates(sc, i, n) ==
    {j \in (1..Len(pdf_items)) \ ClaimedBefore(i) : <<i, j, n>> \in sc}

\* the pairings of A item i
PairsWith(i) == {k \in 1..Len(pairs) : pairs[k].excel = i}

Lowest(S) == CHOOSE j \in S : \A l \in S : j <= l

\* C14: when the call returns, every A item for which, when the loop reached
\* it, some unclaimed B item agreed on all 8 fields is a perfect match with
\* the lowest-index such B item; both are claimed; the A item has no partial
\* match, whatever a lower-index unclaimed B item scored.
C14_FirstPerfectWins ==
    mpc = "returned" =>
    \A sc \in {ScoreTable} : \A i \in Processed :
       \E perfect \in {Candidates(sc, i, 8)} :
          perfect # {} =>
             /\ \E k \in PairsWith(i) :
                   pairs[k] = [excel |-> i, pdf |-> Lowest(perfect),
                               kind |-> "perfect"]
             /\ Cardinality(PairsWith(i)) = 1
             /\ i \in matched_excel_indices
             /\ Lowest(perfect) \in matched_pdf_indices
             /\ i \notin ExcelOf("partial")
             /\ Len(results.mismatches) = Cardinality(PairsOf("partial"))

\* an A item made a perfect match with the second B item although the
\* first, unclaimed, agreed with it on 7 fields
C14_Witness ==
    /\ mpc = "returned"
    /\ Len(excel_items) = 1 /\ Len(pdf_items) = 2
    /\ ScoreOf(1, 1) = 7 /\ ScoreOf(1, 2) = 8
    /\ pairs = <<[excel |-> 1, pdf |-> 2, kind |-> "perfect"]>>
    /\ results.perfect_matches = 1 /\ results.mismatches = << >>

\* the scores from 4 to 7 that some unclaimed B item has against A item i
PartialScores(sc, i) == {n \in 4..7 : Candidates(sc, i, n) # {}}

Highest(S) == CHOOSE n \in S : \A l \in S : l <= n

\* the place in mismatches of the partial pairing pairs[k]
MismatchOf(k) == Cardinality({l \in PairsOf("partial") : l <= k})

\* C15: when the call returns, every A item that had, at its turn, no
\* unclaimed B item scoring 8 and some scoring 4 or more is a partial match
\* with the unclaimed B item of the highest score, the lowest-index one
\* among equals; the entry of mismatches carries that B item, its agreement
\* vector and its score.
C15_BestPartialFirstWins ==
    mpc = "returned" =>
    \A sc \in {ScoreTable} : \A i \in Processed :
       \E scores \in {PartialScores(sc, i)} :
          (Candidates(sc, i, 8) = {} /\ scores # {}) =>
             \E j \in {Lowest(Candidates(sc, i, Highest(scores)))} :
                /\ Cardinality(PairsWith(i)) = 1
                /\ \E k \in PairsWith(i) :
                      /\ pairs[k] = [excel |-> i, pdf |-> j, kind |-> "partial"]
                      /\ MismatchOf(k) \in 1..Len(results.mismatches)
                      /\ results.mismatches[MismatchOf(k)] =
                            [ excel_item  |-> excel_items[i],
                              pdf_item    |-> pdf_items[j],
                              differences |-> Differences(excel_items[i], pdf_items[j]),
                              match_score |-> ToString(Highest(scores)) \o "/8" ]
                /\ i \in matched_excel_indices /\ j \in matched_pdf_indices

\* two different B items agreed with the A item on 7 fields each, and the
\* first was taken
C15_Witness ==
    /\ mpc = "returned"
    /\ Len(excel_items) = 1 /\ Len(pdf_items) = 2
    /\ pdf_items[1] # pdf_items[2]
    /\ ScoreOf(1, 1) = 7 /\ ScoreOf(1, 2) = 7
    /\ pairs = <<[excel |-> 1, pdf |-> 1, kind |-> "partial"]>>
    /\ results.mismatches[1].pdf_item = pdf_items[1]
    /\ results.unmatched_pdf = <<pdf_items[2]>>

\* the elements of s at the positions in S, by increasing position
ItemsAt(s, S) == [k \in 1..Cardinality(S) |-> s[Kth(S, k)]]

\* the A items for which every B item unclaimed when the loop reached them
\* scored below 4
BelowFour ==
    The({ {i \in 1..Len(excel_items) : \A n \in 4..8 : Candidates(sc, i, n) = {}} :
          sc \in {ScoreTable} })

\* the B items in no pairing
NeverClaimed == (1..Len(pdf_items)) \ {pairs[k].pdf : k \in 1..Len(pairs)}

\* C16: when the call returns, unmatched_excel holds, in the order of A,
\* exactly the A items for which every B item unclaimed at their turn scored
\* below 4; unmatched_pdf holds, in the order of B, the B items never
\* claimed; mismatches holds the partial matches in the order of their A
\* items.
C16_UnmatchedAndOrder ==
    mpc = "returned" =>
       \E below \in {BelowFour} :
       /\ \A i \in 1..Len(excel_items) : (PairsWith(i) = {}) <=> (i \in below)
       /\ results.unmatched_excel = ItemsAt(excel_items, below)
       /\ results.unmatched_pdf = ItemsAt(pdf_items, NeverClaimed)
       /\ Len(results.mismatches) = Cardinality(ExcelOf("partial"))
       /\ \A k \in 1..Len(results.mismatches) :
             results.mismatches[k].excel_item
                = ItemsAt(excel_items, ExcelOf("partial"))[k]

\* two different A items left unmatched, in their order, next to a B item
\* that agreed with neither on 4 fields
C16_Witness ==
    /\ mpc = "returned"
    /\ Len(excel_items) = 2 /\ excel_items[1] # excel_items[2]
    /\ Len(pdf_items) = 1
    /\ ScoreOf(1, 1) = 3 /\ ScoreOf(2, 1) < 4
    /\ results.unmatched_excel = excel_items
    /\ results.unmatched_pdf = pdf_items

\* the pairs of an A item and a B item that agree on all 8 fields while
\* neither is in a perfect match
MissedPerfect ==
    { <<i, j>> \in (1..Len(excel_items)) \X (1..Len(pdf_items)) :
        /\ i \notin ExcelOf("perfect") /\ j \notin PdfOf("perfect")
        /\ ScoreOf(i, j) = 8 }

\* C18: the assignment is greedy and depends on the order of A: when the
\* call returns and an A item and a B item agree on all 8 fields without
\* either being in a perfect match, an earlier A item has claimed that B
\* item as a partial match.  (That this happens, with fewer perfect matches
\* than a one-to-one pairing allows and another summary for A reordered, is
\* the state C18_Witness.)
C18_GreedyOrderDependent ==
    mpc = "returned" =>
       \A p \in MissedPerfect :
          \E k \in PairsOf("partial") :
             pairs[k].pdf = p[2] /\ pairs[k].excel < p[1]

\* the second A item and the only B item agree on all 8 fields, the first A
\* item took the B item as a partial match: no perfect match where a
\* one-to-one pairing has one, and A in the other order gives one
C18_Witness ==
    /\ mpc = "returned"
    /\ Len(excel_items) = 2 /\ Len(pdf_items) = 1
    /\ <<2, 1>> \in MissedPerfect
    /\ pairs = <<[excel |-> 1, pdf |-> 1, kind |-> "partial"]>>
    /\ results.perfect_matches = 0
    /\ results.unmatched_excel = <<excel_items[2]>>
    /\ \E swapped \in {CompareLineItems(<<excel_items[2], excel_items[1]>>, pdf_items)} :
          /\ swapped.perfect_matches = 1
          /\ swapped.mismatches = << >>
          /\ swapped # results

-----------------------------------------------------------------------------
(* Claims about the agreement vector (SpecPure) *)

\* equal as strings once surrounding whitespace is trimmed
EqualTrimmed(a, b) == Strip(PyStr(a)) = Strip(PyStr(b))

\* equal integers; absent on both sides agrees, on one side disagrees
EqualYear(a, b) ==
    \/ a = None /\ b = None
    \/ a.t = "int" /\ b.t = "int" /\ a.n = b.n

\* C17: in the agreement vector, hs_code and country_code agree exactly when
\* the two values are equal as strings after trimming surrounding whitespace,
\* and year agrees exactly when the two integers are equal or both are absent.
C17_CodesTrimmedYearExact ==
    (fn = "differences" /\ ret # << >>) =>
       /\ ret[1].hs_code <=> EqualTrimmed(arg1.hs_code, arg2.hs_code)
       /\ ret[1].country_code <=> EqualTrimmed(arg1.country_code, arg2.country_code)
       /\ ret[1].year <=> EqualYear(arg1.year, arg2.year)

-----------------------------------------------------------------------------
(* Claims about the dashboard's run (SpecDash) *)

\* the dashboard's run is over: its try body came to its end, or the except
\* clause showed the error
RunEnded == vpc \in {"cleaned", "error_shown"}

\* the temporary files of the current run that exist
RunTempFiles == {f \in temp_files : f.run = runs}

\* C21: when a dashboard run has ended, by success or by an error, no
\* temporary file of the run exists any more: not the Excel copy, not the
\* converted .xlsx nor the .xlsb copy it came from, not the PDF copy, not
\* the report file
C21_TempFilesDeleted ==
    RunEnded => RunTempFiles = {} /\ report_file = << >>

\* the markers of one dashboard row that show the cross
FailingMarkers(row) == {k \in 1..Len(row) : ~row[k].status}

\* the fields on which the two items of a partial match disagree
Disagreements(diffs) == {f \in FieldNames : ~diffs[f]}

\* C22: every partial match the dashboard shows has a row of field markers
\* with at least one cross, one cross for each field on which the two items
\* disagree, as the text report has one DIFFERENT line for each
C22_EveryDisagreementMarked ==
    vpc = "displayed" /\ overall_pass = <<FALSE>> =>
       \A ms \in {verification_results.line_items.summary[1].mismatches} :
          /\ Len(fields_status) = Len(ms)
          /\ \A idx \in 1..Len(ms) :
                /\ FailingMarkers(fields_status[idx]) # {}
                /\ Cardinality(FailingMarkers(fields_status[idx]))
                      = Cardinality(Disagreements(ms[idx].differences))

-----------------------------------------------------------------------------
(* Claims about generate_report without a completed verify (Spec) *)

\* verify has filled the three parts of the results
ResultsComplete(vresults) ==
    /\ vresults.contact_name # << >>
    /\ vresults.purpose_of_shipment # << >>
    /\ vresults.line_items.summary # << >>

\* C23: generate_report called on a verifier whose verify has not been
\* called, or has raised during extraction, fails and leaves the output path
\* as it was; a report is written only from the complete results of a verify
\* that returned
C23_ReportNeedsVerify ==
    [][ /\ vpc \in {"constructed", "verify_raised"}
             /\ vpc' \in {"reported", "report_raised"}
           => /\ vpc' = "report_raised"
              /\ report_file' = report_file
              /\ reports' = reports
        /\ report_file' # report_file \/ reports' # reports
           => /\ vpc = "verified" /\ vpc' = "reported"
              /\ ResultsComplete(verification_results)
              /\ reports'[Len(reports')].results = verification_results
      ]_vars

\* generate_report has failed on the second verifier, before its verify,
\* and the report of the first run is still at the output path
C23_Witness ==
    /\ vpc = "report_raised"
    /\ runs = 2
    /\ excel_data = << >>
    /\ reports # << >>
    /\ report_file = <<reports[Len(reports)].text>>

=============================================================================
